---- MODULE Spec2Model ----
(***************************************************************************)
(* Bug-localization and history-correlation engine of the Jira/GitLab      *)
(* helper: BugAnalysisService (src/src/services/bug-analysis-service.ts).  *)
(*                                                                         *)
(* Text is modelled character by character: a string of the program is a   *)
(* sequence of one-character strings (a non-ASCII character is written by  *)
(* its code point, "U+5806"), so that substring search, case folding,      *)
(* splitting and the regular expressions are computed, not assumed.        *)
(***************************************************************************)
EXTENDS Integers, Sequences, FiniteSets, TLC

\* ------------------------------------------------------------------ bounds
\* longest qualified method name (in segments) drawn for the frame parser
MaxSegs == 3
\* longest multi-line trace drawn for the frame parser
MaxTraceLines == 2
\* most lines of the generated file drawn for the keyword search
MaxFileLines == 3
\* most words of the commit subjects drawn for the history correlation
MaxSubjectWords == 2
\* most lines of the generated descriptions drawn for the extraction
MaxDescriptionLines == 3
\* most frames of the generated traces drawn for the frame resolution
MaxFrames == 2
\* longest generated summary (in words) drawn for the keywords
MaxSummaryWords == 3
\* the callers of AIService.getClient
MaxCallers == 2
\* the calls of AIService.resetClient that drop a client
MaxResets == 1

\* ------------------------------------------------------- program constants
\* results.slice(0, 20)
TopResults == 20
\* searchResults.slice(0, 50)
MaxScanFiles == 50
\* locations.slice(0, 5)
HistoryLocations == 5
\* relevanceScore: 10 of a stack-trace location
StackTraceScore == 10
\* word.length > 3
MinKeywordLength == 3
\* .slice(0, 10) of the keywords
MaxKeywords == 10

\* ------------------------------------------------------------------- text
Min(S) == CHOOSE x \in S : \A y \in S : x <= y
Max(S) == CHOOSE x \in S : \A y \in S : x >= y

LowerLetters ==
  <<"a", "b", "c", "d", "e", "f", "g", "h", "i", "j", "k", "l", "m",
    "n", "o", "p", "q", "r", "s", "t", "u", "v", "w", "x", "y", "z">>
UpperLetters ==
  <<"A", "B", "C", "D", "E", "F", "G", "H", "I", "J", "K", "L", "M",
    "N", "O", "P", "Q", "R", "S", "T", "U", "V", "W", "X", "Y", "Z">>
DigitChars == <<"0", "1", "2", "3", "4", "5", "6", "7", "8", "9">>

\* the character class \s
IsSpace(c) == c \in {" ", "\t", "\n"}
\* the character class \d
IsDigit(c) == \E i \in 1..10 : DigitChars[i] = c
\* the character class \w
IsWordChar(c) ==
  \/ \E i \in 1..26 : LowerLetters[i] = c \/ UpperLetters[i] = c
  \/ IsDigit(c)
  \/ c = "_"

LowerChar(c) ==
  IF \E i \in 1..26 : UpperLetters[i] = c
    THEN LowerLetters[CHOOSE i \in 1..26 : UpperLetters[i] = c]
    ELSE c
\* String.prototype.toLowerCase
toLowerCase(s) == [i \in 1..Len(s) |-> LowerChar(s[i])]

\* s.startsWith(sub, i - 1): sub occurs in s at (1-based) position i
OccursAt(s, sub, i) ==
  /\ i >= 1
  /\ i + Len(sub) - 1 <= Len(s)
  /\ \A k \in 1..Len(sub) : s[i + k - 1] = sub[k]
\* String.prototype.includes
includes(s, sub) == \E i \in 1..(Len(s) - Len(sub) + 1) : OccursAt(s, sub, i)

\* String.prototype.trim
trim(s) ==
  LET keep == {i \in 1..Len(s) : ~IsSpace(s[i])}
  IN IF keep = {} THEN <<>> ELSE SubSeq(s, Min(keep), Max(keep))

\* String.prototype.split with a one-character separator
RECURSIVE split(_, _)
split(s, sep) ==
  LET at == {i \in 1..Len(s) : s[i] = sep}
  IN IF at = {} THEN <<s>>
     ELSE <<SubSeq(s, 1, Min(at) - 1)>> \o split(SubSeq(s, Min(at) + 1, Len(s)), sep)

\* Array.prototype.join with a one-character separator
RECURSIVE join(_, _)
join(parts, sep) ==
  IF parts = <<>> THEN <<>>
  ELSE IF Len(parts) = 1 THEN parts[1]
  ELSE parts[1] \o <<sep>> \o join(Tail(parts), sep)

\* parseInt(digits, 10) of a non-empty run of decimal digits
RECURSIVE parseInt(_)
parseInt(digits) ==
  IF digits = <<>> THEN 0
  ELSE 10 * parseInt(SubSeq(digits, 1, Len(digits) - 1))
       + (CHOOSE d \in 0..9 : DigitChars[d + 1] = digits[Len(digits)])

\* path.basename (POSIX): the part after the last "/", trailing "/" dropped
basename(p) ==
  LET keep == {i \in 1..Len(p) : p[i] # "/"}
      last == IF keep = {} THEN 0 ELSE Max(keep)
      cut  == {i \in 1..last : p[i] = "/"}
  IN IF last = 0 THEN <<>>
     ELSE SubSeq(p, (IF cut = {} THEN 0 ELSE Max(cut)) + 1, last)

\* the value of a property that is not set
Undefined == <<"undefined">>
\* String.prototype.match found nothing
NoMatch == <<>>

Range(s) == {s[i] : i \in 1..Len(s)}

\* ------------------------------------------------------ stack-trace frames
\* the end t of "(\d+)\)" begun right after the ":" at r, or 0
DigitsClose(line, r) ==
  LET stop == {k \in (r + 1)..Len(line) : ~IsDigit(line[k])}
      t    == IF stop = {} THEN 0 ELSE Min(stop)
  IN IF t > r + 1 /\ line[t] = ")" THEN t ELSE 0

\* where "at\s" starts
AtStarts(line) ==
  {i \in 1..(Len(line) - 2) :
     line[i] = "a" /\ line[i + 1] = "t" /\ IsSpace(line[i + 2])}
\* the last character of the whitespace run that follows the "at" at i
SpaceEnd(line, i) ==
  LET stop == {k \in (i + 2)..Len(line) : ~IsSpace(line[k])}
  IN IF stop = {} THEN Len(line) ELSE Min(stop) - 1

JavaColons(line, q) ==
  {r \in (q + 2)..Len(line) : line[r] = ":" /\ DigitsClose(line, r) # 0}
JavaParens(line, p) ==
  {q \in (p + 1)..Len(line) : line[q] = "(" /\ JavaColons(line, q) # {}}
JavaGroupStarts(line, i) ==
  {p \in (i + 3)..(SpaceEnd(line, i) + 1) : JavaParens(line, p) # {}}
\* line.match(/at\s+(.+)\((.+):(\d+)\)/): the leftmost match, every
\* quantifier greedy; <<fullMethod, fileName, lineNumber>> or NoMatch
javaMatch(line) ==
  LET starts == {i \in AtStarts(line) : JavaGroupStarts(line, i) # {}}
  IN IF starts = {} THEN NoMatch
     ELSE LET i == Min(starts)
              p == Max(JavaGroupStarts(line, i))
              q == Max(JavaParens(line, p))
              r == Max(JavaColons(line, q))
              t == DigitsClose(line, r)
          IN <<SubSeq(line, p, q - 1), SubSeq(line, q + 1, r - 1),
               SubSeq(line, r + 1, t - 1)>>

\* the end t of "(\d+):\d+\)" begun right after the ":" at r, or 0
\* (the middle ":" is returned through JsMiddle)
JsMiddle(line, r) ==
  LET stop == {k \in (r + 1)..Len(line) : ~IsDigit(line[k])}
      u    == IF stop = {} THEN 0 ELSE Min(stop)
  IN IF u > r + 1 /\ line[u] = ":" /\ DigitsClose(line, u) # 0 THEN u ELSE 0
JsColons(line, q) ==
  {r \in (q + 2)..Len(line) : line[r] = ":" /\ JsMiddle(line, r) # 0}
\* the "(" that ends the whitespace run begun after e, or 0
JsParen(line, e) ==
  LET stop == {k \in (e + 1)..Len(line) : ~IsSpace(line[k])}
      q    == IF stop = {} THEN 0 ELSE Min(stop)
  IN IF q > e + 1 /\ line[q] = "(" /\ JsColons(line, q) # {} THEN q ELSE 0
JsNameEnds(line, p) == {e \in p..Len(line) : JsParen(line, e) # 0}
JsGroupStarts(line, i) ==
  {p \in (i + 3)..(SpaceEnd(line, i) + 1) : JsNameEnds(line, p) # {}}
\* line.match(/at\s+(.+?)\s+\((.+):(\d+):\d+\)/): the function name lazy,
\* the rest greedy; <<functionName, fileName, lineNumber>> or NoMatch
jsMatch(line) ==
  LET starts == {i \in AtStarts(line) : JsGroupStarts(line, i) # {}}
  IN IF starts = {} THEN NoMatch
     ELSE LET i == Min(starts)
              p == Max(JsGroupStarts(line, i))
              e == Min(JsNameEnds(line, p))
              q == JsParen(line, e)
              r == Max(JsColons(line, q))
              u == JsMiddle(line, r)
          IN <<SubSeq(line, p, e), SubSeq(line, q + 1, r - 1),
               SubSeq(line, r + 1, u - 1)>>

\* fullMethod.split('.').pop() || fullMethod
lastSegment(fullMethod) ==
  LET parts == split(fullMethod, ".")
  IN IF parts[Len(parts)] = <<>> THEN fullMethod ELSE parts[Len(parts)]
\* qualifier with indexOf in place of lastIndexOf
qualifierToFirstDot(fullMethod) ==
  LET dots == {i \in 1..Len(fullMethod) : fullMethod[i] = "."}
  IN IF dots = {} THEN <<>> ELSE SubSeq(fullMethod, 1, Min(dots) - 1)
\* fullMethod.substring(0, fullMethod.lastIndexOf('.'))
qualifier(fullMethod) ==
  LET dots == {i \in 1..Len(fullMethod) : fullMethod[i] = "."}
  IN IF dots = {} THEN <<>> ELSE SubSeq(fullMethod, 1, Max(dots) - 1)

\* the frame pushed for one line, as a sequence of zero or one frame
frameOfLine(line) ==
  LET jm == javaMatch(line)
      sm == jsMatch(line)
  IN IF jm # NoMatch
       THEN << [fileName     |-> jm[2],
                lineNumber   |-> parseInt(jm[3]),
                functionName |-> lastSegment(jm[1]),
                className    |-> qualifier(jm[1])] >>
     ELSE IF sm # NoMatch
       THEN << [fileName     |-> basename(sm[2]),
                lineNumber   |-> parseInt(sm[3]),
                functionName |-> sm[1],
                className    |-> Undefined] >>
     ELSE <<>>

\* framesOfLines that puts each frame before those of the lines above it
RECURSIVE framesOfLinesReversed(_)
framesOfLinesReversed(lines) ==
  IF lines = <<>> THEN <<>>
  ELSE framesOfLinesReversed(Tail(lines)) \o frameOfLine(Head(lines))
\* the loop over the lines: the frames pushed, in the order of the lines
RECURSIVE framesOfLines(_)
framesOfLines(lines) ==
  IF lines = <<>> THEN <<>>
  ELSE frameOfLine(Head(lines)) \o framesOfLines(Tail(lines))

extractStackTraceFrames(stackTrace) == framesOfLines(split(stackTrace, "\n"))

\* ------------------------------------------------------------- extraction
\* the least position at or after from where sub occurs in s, or 0
indexFrom(s, sub, from) ==
  LET at == {i \in from..(Len(s) - Len(sub) + 1) : OccursAt(s, sub, i)}
  IN IF at = {} THEN 0 ELSE Min(at)

\* the first alternative of headings that matches at position i of s under
\* the flag /i, or 0 (low is s lower-cased; the headings are in lower case)
headingAt(low, headings, i) ==
  LET hit == {h \in 1..Len(headings) : OccursAt(low, headings[h], i)}
  IN IF hit = {} THEN 0 ELSE Min(hit)

\* the alternatives (?:堆栈跟踪|stack trace|stacktrace)
StackTraceHeadings ==
  << <<"U+5806", "U+6808", "U+8DDF", "U+8E2A">>, <<"s", "t", "a", "c", "k", " ", "t", "r", "a", "c", "e">>, <<"s", "t", "a", "c", "k", "t", "r", "a", "c", "e">> >>

\* description.match(/(?:堆栈跟踪|stack trace|stacktrace)[：:]?\s*([\s\S]*?)(?:\n\n##|$)/i)
\* and match[1].trim(), or undefined
extractStackTrace(description) ==
  LET low == toLowerCase(description)
      n   == Len(description)
      at  == {i \in 1..n : headingAt(low, StackTraceHeadings, i) # 0}
  IN IF at = {} THEN Undefined
     ELSE LET i     == Min(at)
              j     == i + Len(StackTraceHeadings[headingAt(low, StackTraceHeadings, i)])
              k     == IF j <= n /\ description[j] \in {":", "U+FF1A"} THEN j + 1 ELSE j
              stop  == {m \in k..n : ~IsSpace(description[m])}
              from  == IF stop = {} THEN n + 1 ELSE Min(stop)
              close == indexFrom(description, <<"\n", "\n", "#", "#">>, from)
              to    == IF close = 0 THEN n ELSE close - 1
          IN trim(SubSeq(description, from, to))

\* the first alternative of headings that matches at position i and is
\* followed by [：:], or 0
colonHeadingAt(low, headings, i) ==
  LET hit == {h \in 1..Len(headings) :
                /\ OccursAt(low, headings[h], i)
                /\ i + Len(headings[h]) <= Len(low)
                /\ low[i + Len(headings[h])] \in {":", "U+FF1A"}}
  IN IF hit = {} THEN 0 ELSE Min(hit)

\* sectionText that is undefined without a match
sectionTextOrUndefined(description, headings, terminators) ==
  LET low == toLowerCase(description)
      n   == Len(description)
      at  == {i \in 1..n : colonHeadingAt(low, headings, i) # 0}
  IN IF at = {} THEN Undefined
     ELSE LET i    == Min(at)
              from == i + Len(headings[colonHeadingAt(low, headings, i)]) + 1
              ends == {m \in from..n : \E t \in terminators : OccursAt(low, t, m)}
              to   == IF ends = {} THEN n ELSE Min(ends) - 1
          IN trim(SubSeq(description, from, to))
\* description.match(/(?:<headings>)[：:]([\s\S]*?)(?:<terminators>|$)/i) and
\* match[1].trim(), or '' without a match
sectionText(description, headings, terminators) ==
  LET low == toLowerCase(description)
      n   == Len(description)
      at  == {i \in 1..n : colonHeadingAt(low, headings, i) # 0}
  IN IF at = {} THEN <<>>
     ELSE LET i    == Min(at)
              from == i + Len(headings[colonHeadingAt(low, headings, i)]) + 1
              ends == {m \in from..n : \E t \in terminators : OccursAt(low, t, m)}
              to   == IF ends = {} THEN n ELSE Min(ends) - 1
          IN trim(SubSeq(description, from, to))

\* extractExpectedBehavior whose section runs to the blank line alone
extractExpectedBehaviorToBlankLine(description) ==
  sectionText(description,
              << <<"U+671F", "U+671B", "U+884C", "U+4E3A">>, <<"e", "x", "p", "e", "c", "t", "e", "d", " ", "b", "e", "h", "a", "v", "i", "o", "r">>, <<"e", "x", "p", "e", "c", "t", "e", "d">> >>,
              { <<"\n", "\n">> })
\* /(?:期望行为|expected behavior|expected)[：:]([\s\S]*?)(?:\n\n|期望|actual|实际|$)/i
extractExpectedBehavior(description) ==
  sectionText(description,
              << <<"U+671F", "U+671B", "U+884C", "U+4E3A">>, <<"e", "x", "p", "e", "c", "t", "e", "d", " ", "b", "e", "h", "a", "v", "i", "o", "r">>, <<"e", "x", "p", "e", "c", "t", "e", "d">> >>,
              { <<"\n", "\n">>, <<"U+671F", "U+671B">>, <<"a", "c", "t", "u", "a", "l">>, <<"U+5B9E", "U+9645">> })

\* /(?:实际行为|actual behavior|actual)[：:]([\s\S]*?)(?:\n\n|堆栈|stack|环境|$)/i
extractActualBehavior(description) ==
  sectionText(description,
              << <<"U+5B9E", "U+9645", "U+884C", "U+4E3A">>, <<"a", "c", "t", "u", "a", "l", " ", "b", "e", "h", "a", "v", "i", "o", "r">>, <<"a", "c", "t", "u", "a", "l">> >>,
              { <<"\n", "\n">>, <<"U+5806", "U+6808">>, <<"s", "t", "a", "c", "k">>, <<"U+73AF", "U+5883">> })

\* /(?:环境|environment)[：:]([\s\S]*?)(?:\n\n|$)/i
extractEnvironment(description) ==
  sectionText(description, << <<"U+73AF", "U+5883">>, <<"e", "n", "v", "i", "r", "o", "n", "m", "e", "n", "t">> >>, { <<"\n", "\n">> })

\* the headings that open the steps section
StepsHeadings == { <<"U+91CD", "U+73B0", "U+6B65", "U+9AA4">>, <<"s", "t", "e", "p", "s", " ", "t", "o", " ", "r", "e", "p", "r", "o", "d", "u", "c", "e">>, <<"U+590D", "U+73B0", "U+6B65", "U+9AA4">> }
\* the words at which collecting the steps stops
StepsStops == { <<"e", "x", "p", "e", "c", "t", "e", "d">>, <<"a", "c", "t", "u", "a", "l">>, <<"U+671F", "U+671B">> }
\* line.trim().match(/^\d+\./)
startsNumbered(t) ==
  LET stop == {k \in 1..Len(t) : ~IsDigit(t[k])}
  IN stop # {} /\ Min(stop) > 1 /\ t[Min(stop)] = "."

\* extractStepsToReproduce's loop over the lines left, steps collected so far
RECURSIVE collectSteps(_, _, _)
collectSteps(lines, inStepsSection, steps) ==
  IF lines = <<>> THEN steps
  ELSE LET line == Head(lines)
           low  == toLowerCase(line)
           t    == trim(line)
       IN IF \E h \in StepsHeadings : includes(low, h)
            THEN collectSteps(Tail(lines), TRUE, steps)
          ELSE IF ~inStepsSection
            THEN collectSteps(Tail(lines), FALSE, steps)
          ELSE IF (t # <<>> /\ t[1] = "-") \/ startsNumbered(t)
            THEN collectSteps(Tail(lines), TRUE, Append(steps, t))
          ELSE IF /\ t # <<>>
                  /\ line[1] # "#"
                  /\ \E w \in StepsStops : includes(low, w)
            THEN steps
          ELSE collectSteps(Tail(lines), TRUE, steps)

extractStepsToReproduce(description) ==
  collectSteps(split(description, "\n"), FALSE, <<>>)

\* --------------------------------------------------------------- keywords
\* .replace(/[^\w\s]/g, ' ')
replaceNonWord(s) ==
  [i \in 1..Len(s) |-> IF IsWordChar(s[i]) \/ IsSpace(s[i]) THEN s[i] ELSE " "]

\* .split(/\s+/), without the empty strings it yields at the two ends
\* (the length filter that follows drops them)
splitSpaces(s) ==
  LET starts == SelectSeq([i \in 1..Len(s) |-> i],
                          LAMBDA i : ~IsSpace(s[i]) /\ (i = 1 \/ IsSpace(s[i - 1])))
      endOf(b) == LET stop == {i \in b..Len(s) : IsSpace(s[i])}
                  IN IF stop = {} THEN Len(s) ELSE Min(stop) - 1
  IN SubSeq([k \in 1..Len(starts) |-> SubSeq(s, starts[k], endOf(starts[k]))],
            1, Len(starts))

\* [...new Set(words)]: the first occurrence of each word, in order
unique(words) ==
  LET firsts == SelectSeq([i \in 1..Len(words) |-> i],
                          LAMBDA i : \A j \in 1..(i - 1) : words[j] # words[i])
  IN SubSeq([k \in 1..Len(firsts) |-> words[firsts[k]]], 1, Len(firsts))

commonWords ==
  { <<"t", "h", "e">>, <<"a", "n", "d">>, <<"f", "o", "r">>, <<"w", "i", "t", "h">>, <<"t", "h", "i", "s">>, <<"t", "h", "a", "t">>, <<"w", "h", "e", "n">>, <<"t", "h", "e", "n">> }

\* Array.prototype.slice(0, n)
take(s, n) == SubSeq(s, 1, IF Len(s) < n THEN Len(s) ELSE n)

\* extractKeywords that cuts to the first 10 words before it removes the
\* common words
extractKeywordsCutFirst(bugInfo) ==
  LET text  == bugInfo.summary \o <<" ">> \o bugInfo.description
      words == SelectSeq(splitSpaces(replaceNonWord(toLowerCase(text))),
                         LAMBDA w : Len(w) > MinKeywordLength)
  IN SelectSeq(take(unique(words), MaxKeywords), LAMBDA w : w \notin commonWords)
\* extractKeywords: the first 10 distinct words of more than 3 characters of
\* summary + ' ' + description that are no common words
extractKeywords(bugInfo) ==
  LET text  == bugInfo.summary \o <<" ">> \o bugInfo.description
      parts == splitSpaces(replaceNonWord(toLowerCase(text)))
      words == IF parts = <<>> THEN <<>>
               ELSE SelectSeq(parts, LAMBDA w : Len(w) > MinKeywordLength)
  IN IF words = <<>> THEN <<>>
     ELSE take(SelectSeq(unique(words), LAMBDA w : w \notin commonWords), MaxKeywords)

\* ---------------------------------------------------------- keyword search
\* calculateRelevance, were it to count every occurrence of a keyword
calculateRelevanceOfOccurrences(line, keywords) ==
  Cardinality({p \in (1..Len(keywords)) \X (1..Len(line)) :
                 OccursAt(toLowerCase(line), toLowerCase(keywords[p[1]]), p[2])})
\* calculateRelevance without line.toLowerCase()
calculateRelevanceCaseSensitive(line, keywords) ==
  Cardinality({k \in 1..Len(keywords) : includes(line, toLowerCase(keywords[k]))})
\* the number of keywords the line includes, the line lower-cased
calculateRelevance(line, keywords) ==
  LET lowerLine == toLowerCase(line)
  IN Cardinality({k \in 1..Len(keywords) :
                    includes(lowerLine, toLowerCase(keywords[k]))})

\* the include glob **/*.{ts,js,tsx,jsx,java,py}
SearchExtensions ==
  { <<".", "t", "s">>, <<".", "j", "s">>, <<".", "t", "s", "x">>, <<".", "j", "s", "x">>, <<".", "j", "a", "v", "a">>, <<".", "p", "y">> }
endsWith(s, suffix) == OccursAt(s, suffix, Len(s) - Len(suffix) + 1)
\* vscode.workspace.findFiles('**/*.{ts,js,tsx,jsx,java,py}', '**/node_modules/**')
\* over the workspace's files, in the order the workspace lists them
findSourceFiles(files) ==
  SelectSeq(files, LAMBDA f :
    /\ \E ext \in SearchExtensions : endsWith(f.path, ext)
    /\ ~includes(<<"/">> \o f.path, <<"/", "n", "o", "d", "e", "_", "m", "o", "d", "u", "l", "e", "s", "/">>))

\* Array.prototype.slice(from, to) with 0-based bounds, to exclusive
slice(s, from, to) == SubSeq(s, from + 1, to)

\* the result pushed for line index (0-based) of a file
searchResult(f, index, keywords) ==
  [filePath       |-> f.path,
   lineNumber     |-> index + 1,
   content        |-> trim(f.lines[index + 1]),
   relevanceScore |-> calculateRelevance(f.lines[index + 1], keywords),
   context        |-> [before |-> slice(f.lines, Max({0, index - 2}), index),
                       after  |-> slice(f.lines, index + 1,
                                        Min({Len(f.lines), index + 3}))]]

\* lines.forEach from line index (0-based) on: the results of the lines of f
\* that include keyword, in the order of the lines
resultsOfLines(f, index, keyword, keywords) ==
  LET rest == [i \in 1..(Len(f.lines) - index) |-> index + i - 1]
      hits == SelectSeq(rest, LAMBDA at :
                includes(toLowerCase(f.lines[at + 1]), toLowerCase(keyword)))
  IN SubSeq([k \in 1..Len(hits) |-> searchResult(f, hits[k], keywords)],
            1, Len(hits))

\* the length of the longest of a sequence of sequences
MaxLen(seqs) == IF seqs = <<>> THEN 0 ELSE Max({Len(seqs[i]) : i \in 1..Len(seqs)})
\* the sequences of a sequence, one after the other
concat(seqs) ==
  IF seqs = <<>> THEN <<>>
  ELSE LET lens   == [i \in 1..Len(seqs) |-> Len(seqs[i])]
           before == [i \in 1..Len(seqs) |->
                        Cardinality({p \in (1..(i - 1)) \X (1..MaxLen(seqs)) :
                                       p[2] <= lens[p[1]]})]
           total  == before[Len(seqs)] + lens[Len(seqs)]
       IN SubSeq([k \in 1..total |->
                    LET i == CHOOSE i \in 1..Len(seqs) :
                               before[i] < k /\ k <= before[i] + lens[i]
                    IN seqs[i][k - before[i]]],
                 1, total)

\* the loop over the files found, were it to end at a file that cannot be
\* read
resultsOfFilesUntilUnreadable(files, keyword, keywords) ==
  LET unreadable == {i \in 1..Len(files) : ~files[i].readable}
      last       == IF unreadable = {} THEN Len(files) ELSE Min(unreadable) - 1
  IN concat([i \in 1..last |-> resultsOfLines(files[i], 0, keyword, keywords)])

\* the loop over the files found: one that cannot be read is skipped
resultsOfFiles(files, keyword, keywords) ==
  concat([i \in 1..Len(files) |->
            IF files[i].readable
              THEN resultsOfLines(files[i], 0, keyword, keywords) ELSE <<>>])

\* the loop over the keywords
resultsOfKeywords(todo, keywords, files) ==
  LET found == findSourceFiles(files)
  IN concat([k \in 1..Len(todo) |->
               resultsOfFiles(take(found, MaxScanFiles), todo[k], keywords)])

\* sort's comparator (a, b) => b.relevanceScore - a.relevanceScore: negative
\* when a goes before b
compareRelevance(a, b) == b.relevanceScore - a.relevanceScore
\* a sort with that comparator that is not stable: of two results the
\* comparator does not tell apart, the later one goes first
sortByRelevanceUnstable(results) ==
  LET n     == Len(results)
      place == [i \in 1..n |->
                  1 + Cardinality({j \in 1..n :
                        \/ compareRelevance(results[j], results[i]) < 0
                        \/ compareRelevance(results[j], results[i]) = 0 /\ j > i})]
  IN SubSeq([k \in 1..n |-> results[CHOOSE i \in 1..n : place[i] = k]], 1, n)
\* Array.prototype.sort (stable) with that comparator: a result goes after
\* those the comparator puts before it and after the earlier ones it does
\* not tell apart from it
sortByRelevance(results) ==
  LET n     == Len(results)
      place == [i \in 1..n |->
                  1 + Cardinality({j \in 1..n :
                        \/ compareRelevance(results[j], results[i]) < 0
                        \/ compareRelevance(results[j], results[i]) = 0 /\ j < i})]
  IN SubSeq([k \in 1..n |-> results[CHOOSE i \in 1..n : place[i] = k]], 1, n)

\* the body of searchRelatedCode's try block
searchRelatedCode(bugInfo, files) ==
  LET keywords == extractKeywords(bugInfo)
      results  == resultsOfKeywords(keywords, keywords, files)
  IN IF keywords = <<>> \/ results = <<>> THEN <<>>
     ELSE take(sortByRelevance(results), TopResults)

\* ------------------------------------------------------- frame resolution
\* vscode.workspace.findFiles(`**/${fileName}`) and files[0]: the first file
\* found, as a sequence of one file, or <<>> for null
findFileInWorkspace(fileName, files) ==
  take(SelectSeq(files, LAMBDA f :
         f.path = fileName \/ endsWith(f.path, <<"/">> \o fileName)), 1)

\* the result pushed for a frame whose file f was found and read
frameResult(f, frame) ==
  LET lineIndex == frame.lineNumber - 1
  IN IF lineIndex >= 0 /\ lineIndex < Len(f.lines)
       THEN << [filePath       |-> f.path,
                lineNumber     |-> frame.lineNumber,
                content        |-> trim(f.lines[lineIndex + 1]),
                relevanceScore |-> StackTraceScore,
                context        |->
                  [before |-> slice(f.lines, Max({0, lineIndex - 5}), lineIndex),
                   after  |-> slice(f.lines, lineIndex + 1,
                                    Min({Len(f.lines), lineIndex + 6}))]] >>
       ELSE <<>>

\* a frame whose file is found and cannot be read: fs.readFile rejects
readFails(frame, files) ==
  LET found == findFileInWorkspace(frame.fileName, files)
  IN found # <<>> /\ ~found[1].readable

RECURSIVE resultsOfFrames(_, _)
resultsOfFrames(frames, files) ==
  IF frames = <<>> THEN <<>>
  ELSE LET found == findFileInWorkspace(Head(frames).fileName, files)
       IN (IF found = <<>> THEN <<>> ELSE frameResult(found[1], Head(frames)))
          \o resultsOfFrames(Tail(frames), files)

\* parseStackTrace's catch block runs: the read of some frame's file throws
parseStackTraceFails(stackTrace, files) ==
  LET frames == extractStackTraceFrames(stackTrace)
  IN \E i \in 1..Len(frames) : readFails(frames[i], files)

\* parseStackTrace: the frames' results, or [] when a read throws
parseStackTrace(stackTrace, files) ==
  IF parseStackTraceFails(stackTrace, files)
    THEN <<>>
    ELSE resultsOfFrames(extractStackTraceFrames(stackTrace), files)

\* ---------------------------------------------------------------- history
suspiciousKeywords ==
  { <<"f", "i", "x">>, <<"b", "u", "g">>, <<"i", "s", "s", "u", "e">>, <<"U+4FEE", "U+590D">>, <<"U+95EE", "U+9898">>, <<"h", "o", "t", "f", "i", "x">>, <<"p", "a", "t", "c", "h">> }
isSuspiciousCommit(message) ==
  \E keyword \in suspiciousKeywords : includes(toLowerCase(message), keyword)

SuspiciousReason == <<"U+63D0", "U+4EA4", "U+6D88", "U+606F", "U+5305", "U+542B", "U+53EF", "U+7591", "U+5173", "U+952E", "U+8BCD">>

\* stdout.split('\n').filter(Boolean)
commitLines(stdout) == SelectSeq(split(stdout, "\n"), LAMBDA l : l # <<>>)

\* const [hash, author, date, message] = commit.split('|'): the i-th field
field(commit, i) ==
  LET parts == split(commit, "|")
  IN IF i <= Len(parts) THEN parts[i] ELSE Undefined

\* message.toLowerCase() of an undefined message throws a TypeError
commitThrows(commit) == field(commit, 4) = Undefined

\* the record pushed for one line of the log of filePath
commitRecord(commit, filePath) ==
  [commitHash |-> field(commit, 1),
   author     |-> field(commit, 2),
   date       |-> field(commit, 3),
   message    |-> field(commit, 4),
   files      |-> <<filePath>>,
   suspicious |-> isSuspiciousCommit(field(commit, 4)),
   reason     |-> IF isSuspiciousCommit(field(commit, 4))
                    THEN SuspiciousReason ELSE Undefined]

commitRecords(stdout, filePath) ==
  LET commits == commitLines(stdout)
  IN [i \in 1..Len(commits) |-> commitRecord(commits[i], filePath)]

\* path.join(workspaceUri.fsPath, location.filePath)
WorkspaceRoot == <<"/", "w">>
joinPath(root, relative) == root \o <<"/">> \o relative

\* ------------------------------------------------------------ JSON.parse
\* a JavaScript value: its type and, for the types that have one, its content
JsValue(t, v) == [t |-> t, v |-> v]
JsUndefined == JsValue("undefined", <<>>)
JsNull == JsValue("null", <<>>)
JsString(s) == JsValue("string", s)
JsArray(elements) == JsValue("array", elements)
\* what a step of the parse gives: whether it succeeded, the value read and
\* the position after it
Parsed(v, next) == [ok |-> TRUE, v |-> v, next |-> next]
SyntaxError == [ok |-> FALSE, v |-> JsUndefined, next |-> 0]

\* the position of the first character at or after i that is not JSON
\* whitespace
RECURSIVE skipWhitespace(_, _)
skipWhitespace(s, i) ==
  IF i <= Len(s) /\ s[i] \in {" ", "\t", "\n", "\r"} THEN skipWhitespace(s, i + 1) ELSE i

\* the literal word at position i
parseLiteral(s, i, word, v) ==
  IF OccursAt(s, word, i) THEN Parsed(v, i + Len(word)) ELSE SyntaxError

\* a number at position i: -?(0|[1-9][0-9]*); a fraction or an exponent,
\* which no text drawn here has, is read as a syntax error
parseNumber(s, i) ==
  LET neg   == i <= Len(s) /\ s[i] = "-"
      from  == IF neg THEN i + 1 ELSE i
      stop  == {k \in from..Len(s) : ~IsDigit(s[k])}
      to    == IF stop = {} THEN Len(s) ELSE Min(stop) - 1
      n     == parseInt(SubSeq(s, from, to))
  IN IF to < from \/ (to > from /\ s[from] = "0")
          \/ (to < Len(s) /\ s[to + 1] \in {".", "e", "E"})
       THEN SyntaxError
       ELSE Parsed(JsValue("number", IF neg THEN 0 - n ELSE n), to + 1)

\* a string at position i, whose opening quote is there: the characters up
\* to the next quote; a control character or an escape, which no string
\* drawn here has, is read as a syntax error
parseString(s, i) ==
  LET close == {k \in (i + 1)..Len(s) : s[k] = "\""}
  IN IF close = {} THEN SyntaxError
     ELSE LET body == SubSeq(s, i + 1, Min(close) - 1)
          IN IF \E k \in 1..Len(body) : body[k] \in {"\n", "\t", "\r", "\\"}
               THEN SyntaxError
               ELSE Parsed(JsString(body), Min(close) + 1)

RECURSIVE parseValue(_, _)
RECURSIVE parseElements(_, _, _)
RECURSIVE parseMembers(_, _, _)

\* the elements of an array after its '[' or after a ',', those read so far
\* given
parseElements(s, i, elements) ==
  LET e == parseValue(s, i)
      j == skipWhitespace(s, e.next)
  IN IF ~e.ok \/ j > Len(s) THEN SyntaxError
     ELSE IF s[j] = "]" THEN Parsed(JsArray(Append(elements, e.v)), j + 1)
     ELSE IF s[j] = "," THEN parseElements(s, j + 1, Append(elements, e.v))
     ELSE SyntaxError

\* the members of an object after its '{' or after a ',', those read so far
\* given
parseMembers(s, i, members) ==
  LET k     == skipWhitespace(s, i)
      key   == IF k <= Len(s) /\ s[k] = "\"" THEN parseString(s, k) ELSE SyntaxError
      colon == skipWhitespace(s, key.next)
      e     == IF key.ok /\ colon <= Len(s) /\ s[colon] = ":"
                 THEN parseValue(s, colon + 1) ELSE SyntaxError
      j     == skipWhitespace(s, e.next)
      all   == Append(members, [key |-> key.v.v, value |-> e.v])
  IN IF ~e.ok \/ j > Len(s) THEN SyntaxError
     ELSE IF s[j] = "}" THEN Parsed(JsValue("object", all), j + 1)
     ELSE IF s[j] = "," THEN parseMembers(s, j + 1, all)
     ELSE SyntaxError

\* the value that starts at the first character at or after i that is not
\* whitespace
parseValue(s, i) ==
  LET j == skipWhitespace(s, i)
  IN IF j > Len(s) THEN SyntaxError
     ELSE IF s[j] = "n" THEN parseLiteral(s, j, <<"n", "u", "l", "l">>, JsNull)
     ELSE IF s[j] = "t" THEN parseLiteral(s, j, <<"t", "r", "u", "e">>, JsValue("boolean", TRUE))
     ELSE IF s[j] = "f" THEN parseLiteral(s, j, <<"f", "a", "l", "s", "e">>, JsValue("boolean", FALSE))
     ELSE IF s[j] = "-" \/ IsDigit(s[j]) THEN parseNumber(s, j)
     ELSE IF s[j] = "\"" THEN parseString(s, j)
     ELSE IF s[j] = "[" THEN
       LET k == skipWhitespace(s, j + 1)
       IN IF k <= Len(s) /\ s[k] = "]" THEN Parsed(JsArray(<<>>), k + 1)
          ELSE parseElements(s, j + 1, <<>>)
     ELSE IF s[j] = "{" THEN
       LET k == skipWhitespace(s, j + 1)
       IN IF k <= Len(s) /\ s[k] = "}" THEN Parsed(JsValue("object", <<>>), k + 1)
          ELSE parseMembers(s, j + 1, <<>>)
     ELSE SyntaxError

\* JSON.parse(text): the value of the whole text, or a SyntaxError thrown
JSONparse(text) ==
  LET r == parseValue(text, 1)
  IN IF r.ok /\ skipWhitespace(text, r.next) > Len(text) THEN r ELSE SyntaxError

\* --------------------------------------------------------- fix suggestion
\* parsed[name], parsed not null: the value of the last member of that key
\* of an object, undefined of any other value
property(parsed, name) ==
  LET at == IF parsed.t = "object"
              THEN {m \in 1..Len(parsed.v) : parsed.v[m].key = name}
              ELSE {}
  IN IF at = {} THEN JsUndefined ELSE parsed.v[Max(at)].value

\* x || fallback: x when it is truthy
orElse(x, fallback) ==
  LET truthy == /\ x.t \notin {"undefined", "null"}
                /\ x.t = "boolean" => x.v
                /\ x.t = "number" => x.v # 0
                /\ x.t = "string" => x.v # <<>>
  IN IF truthy THEN x ELSE fallback

\* no suggestion
NoSuggestion ==
  [type |-> JsUndefined, description |-> JsUndefined, rootCause |-> JsUndefined,
   fixSteps |-> JsUndefined, codeChanges |-> JsUndefined,
   testSuggestions |-> JsUndefined, risks |-> JsUndefined]

\* parseFixSuggestion's catch block
fallbackSuggestionWithoutSteps(aiResponse, analysis) ==
  [type            |-> JsString(<<"c", "o", "m", "p", "l", "e", "x">>),
   description     |-> JsString(aiResponse),
   rootCause       |-> JsString(<<"U", "n", "k", "n", "o", "w", "n">>),
   fixSteps        |-> JsArray(<<>>),
   codeChanges     |-> JsUndefined,
   testSuggestions |-> JsArray(<<>>),
   risks           |-> JsArray(<<>>)]
fallbackSuggestion(aiResponse, analysis) ==
  [type            |-> JsString(<<"c", "o", "m", "p", "l", "e", "x">>),
   description     |-> JsString(aiResponse),
   rootCause       |->
     IF analysis.possibleCauses # <<>> /\ analysis.possibleCauses[1].description # <<>>
       THEN JsString(analysis.possibleCauses[1].description)
       ELSE JsString(<<"U", "n", "k", "n", "o", "w", "n">>),
   fixSteps        |-> JsArray(<< JsString(<<"U+8BF7", "U+624B", "U+52A8", "U+5206", "U+6790", "U+5E76", "U+4FEE", "U+590D", "B", "u", "g">>) >>),
   codeChanges     |-> JsUndefined,
   testSuggestions |-> JsArray(<< JsString(<<"U+6DFB", "U+52A0", "U+76F8", "U+5173", "U+6D4B", "U+8BD5", "U+7528", "U+4F8B">>) >>),
   risks           |-> JsArray(<< JsString(<<"U+9700", "U+8981", "U+4EBA", "U+5DE5", "U+5BA1", "U+67E5">>) >>)]

\* parseFixSuggestion's try block, parsed an object or a primitive
populatedSuggestion(parsed) ==
  [type            |-> orElse(property(parsed, <<"t", "y", "p", "e">>), JsString(<<"c", "o", "m", "p", "l", "e", "x">>)),
   description     |-> orElse(property(parsed, <<"d", "e", "s", "c", "r", "i", "p", "t", "i", "o", "n">>), JsString(<<>>)),
   rootCause       |-> orElse(property(parsed, <<"r", "o", "o", "t", "C", "a", "u", "s", "e">>), JsString(<<>>)),
   fixSteps        |-> orElse(property(parsed, <<"f", "i", "x", "S", "t", "e", "p", "s">>), JsArray(<<>>)),
   codeChanges     |-> property(parsed, <<"c", "o", "d", "e", "C", "h", "a", "n", "g", "e", "s">>),
   testSuggestions |-> orElse(property(parsed, <<"t", "e", "s", "t", "S", "u", "g", "g", "e", "s", "t", "i", "o", "n", "s">>), JsArray(<<>>)),
   risks           |-> orElse(property(parsed, <<"r", "i", "s", "k", "s">>), JsArray(<<>>))]

\* parseFixSuggestion whose try block holds JSON.parse alone
parseFixSuggestionUnguarded(aiResponse, analysis) ==
  LET parsed == JSONparse(aiResponse)
  IN IF ~parsed.ok
       THEN [thrown |-> FALSE, value |-> fallbackSuggestion(aiResponse, analysis)]
     ELSE IF parsed.v.t = "null" THEN [thrown |-> TRUE, value |-> NoSuggestion]
     ELSE [thrown |-> FALSE, value |-> populatedSuggestion(parsed.v)]
\* parseFixSuggestion, as the value it returns or the error it throws: the
\* SyntaxError of JSON.parse and the TypeError of reading a property of null
\* are both thrown inside the try block
parseFixSuggestion(aiResponse, analysis) ==
  LET parsed == JSONparse(aiResponse)
  IN IF ~parsed.ok \/ parsed.v.t = "null"
       THEN [thrown |-> FALSE, value |-> fallbackSuggestion(aiResponse, analysis)]
       ELSE [thrown |-> FALSE, value |-> populatedSuggestion(parsed.v)]

\* ------------------------------------------------- the fix suggestion prompt
\* String(n) of a natural number
RECURSIVE toString(_)
toString(n) ==
  IF n < 10 THEN <<DigitChars[n + 1]>>
  ELSE toString(n \div 10) \o <<DigitChars[(n % 10) + 1]>>

\* `${i + 1}. ${c.description} (置信度: ${c.confidence}%)`
causeLine(c, i) ==
  toString(i) \o <<".", " ">> \o c.description \o <<" ", "(", "U+7F6E", "U+4FE1", "U+5EA6", ":", " ">> \o toString(c.confidence)
    \o <<"%", ")">>
\* `- ${l.filePath}:${l.lineNumber}`
locationLine(l) == <<"-", " ">> \o l.filePath \o <<":">> \o toString(l.lineNumber)
\* `- ${c.commitHash.substring(0, 7)}: ${c.message}`
changeLine(c) == <<"-", " ">> \o take(c.commitHash, 7) \o <<":", " ">> \o c.message

\* buildAnalysisContext: the bug, the causes, the first 5 suggested
\* locations and the first 3 related changes
buildAnalysisContext(bugInfo, analysis) ==
  LET causes    == analysis.possibleCauses
      locations == take(analysis.suggestedLocations, 5)
      changes   == take(analysis.relatedChanges, 3)
  IN <<"B", "u", "g", ":", " ">> \o bugInfo.issueKey \o <<" ", "-", " ">> \o bugInfo.summary
     \o <<"\n", "\n", "U+53EF", "U+80FD", "U+539F", "U+56E0", ":", "\n">>
     \o join([i \in 1..Len(causes) |-> causeLine(causes[i], i)], "\n")
     \o <<"\n", "\n", "U+5EFA", "U+8BAE", "U+68C0", "U+67E5", "U+4F4D", "U+7F6E", ":", "\n">>
     \o join([i \in 1..Len(locations) |-> locationLine(locations[i])], "\n")
     \o <<"\n", "\n", "U+76F8", "U+5173", "U+53D8", "U+66F4", ":", "\n">>
     \o join([i \in 1..Len(changes) |-> changeLine(changes[i])], "\n")

\* generateFixSuggestion: the prompt around the context
fixPrompt(context) ==
  <<"U+57FA", "U+4E8E", "U+4EE5", "U+4E0B", "B", "u", "g", "U+5206", "U+6790", ",", "U+751F", "U+6210", "U+4FEE", "U+590D", "U+5EFA", "U+8BAE", ":", "\n", "\n">> \o context
    \o <<"\n", "\n", "U+8BF7", "U+63D0", "U+4F9B", ":", "\n", "1", ".", " ", "U+6839", "U+672C", "U+539F", "U+56E0", "U+5206", "U+6790", "\n", "2", ".", " ", "U+4FEE", "U+590D", "U+6B65", "U+9AA4", "\n", "3", ".", " ", "U+4EE3", "U+7801", "U+4FEE", "U+6539", "U+5EFA", "U+8BAE", "\n", "4", ".", " ", "U+6D4B", "U+8BD5", "U+5EFA", "U+8BAE", "\n", "5", ".", " ", "U+6F5C", "U+5728", "U+98CE", "U+9669", "\n", "\n", "U+4EE5", "J", "S", "O", "N", "U+683C", "U+5F0F", "U+8FD4", "U+56DE", "U+3002">>

\* ----------------------------------------------------------------- inputs
\* src/main/java/com/acme/Auth.java: 90 lines, most of them empty
AuthJavaLines ==
  [i \in 1..90 |->
     CASE i = 1  -> <<"p", "a", "c", "k", "a", "g", "e", " ", "c", "o", "m", ".", "a", "c", "m", "e", ".", "a", "u", "t", "h", ";">>
       [] i = 3  -> <<"i", "m", "p", "o", "r", "t", " ", "j", "a", "v", "a", ".", "u", "t", "i", "l", ".", "S", "t", "a", "c", "k", ";">>
       [] i = 5  -> <<"p", "u", "b", "l", "i", "c", " ", "c", "l", "a", "s", "s", " ", "A", "u", "t", "h", " ", "{">>
       [] i = 7  -> <<" ", " ", "/", "/", " ", "l", "o", "g", "i", "n", " ", "f", "a", "i", "l", "s", " ", "w", "i", "t", "h", " ", "a", " ", "s", "t", "a", "c", "k", " ", "t", "r", "a", "c", "e">>
       [] i = 88 -> <<" ", " ", " ", " ", "r", "e", "t", "u", "r", "n", " ", "a", "c", "m", "e", ".", "l", "o", "g", "i", "n", "(", "a", "u", "t", "h", ")", ";", " ", "/", "/", " ", "f", "a", "i", "l", "s">>
       [] i = 90 -> <<"}">>
       [] OTHER  -> <<>>]
AuthJava ==
  [path |-> <<"s", "r", "c", "/", "m", "a", "i", "n", "/", "j", "a", "v", "a", "/", "c", "o", "m", "/", "a", "c", "m", "e", "/", "A", "u", "t", "h", ".", "j", "a", "v", "a">>, readable |-> TRUE,
   lines |-> AuthJavaLines]
\* a file of the same name too short for line 88
ShortAuthJava ==
  [path |-> <<"s", "r", "c", "/", "A", "u", "t", "h", ".", "j", "a", "v", "a">>, readable |-> TRUE,
   lines |-> << <<"c", "l", "a", "s", "s", " ", "A", "u", "t", "h", " ", "{">>, <<" ", " ", "v", "o", "i", "d", " ", "l", "o", "g", "i", "n", "(", ")", " ", "{", "}">>, <<"}">> >>]
LoginTs ==
  [path |-> <<"s", "r", "c", "/", "l", "o", "g", "i", "n", ".", "t", "s">>, readable |-> TRUE,
   lines |-> << <<"i", "m", "p", "o", "r", "t", " ", "{", " ", "l", "o", "g", "i", "n", " ", "}", " ", "f", "r", "o", "m", " ", "'", ".", "/", "a", "u", "t", "h", "'", ";">>,
                <<"/", "/", " ", "j", "a", "v", "a", " ", "s", "t", "a", "c", "k", " ", "t", "r", "a", "c", "e", ":", " ", "l", "o", "g", "i", "n", " ", "f", "a", "i", "l", "s", " ", "f", "o", "r", " ", "a", "c", "m", "e">>,
                <<>> >>]
UtilsJs ==
  [path |-> <<"l", "i", "b", "/", "u", "t", "i", "l", "s", ".", "j", "s">>, readable |-> TRUE,
   lines |-> << <<"c", "l", "a", "s", "s", " ", "L", "o", "a", "d", "e", "r", " ", "{">>,
                <<" ", " ", "/", "/", " ", "t", "h", "e", " ", "c", "l", "a", "s", "s", "i", "c", " ", "l", "o", "a", "d", "e", "r", " ", "h", "a", "n", "g", "s">>,
                <<" ", " ", "l", "o", "a", "d", "(", ")", " ", "{", " ", "r", "e", "t", "u", "r", "n", " ", "l", "o", "a", "d", "i", "n", "g", ";", " ", "}">>,
                <<"}">>,
                <<>>, <<>>, <<>>, <<>>, <<>>,
                <<"f", "u", "n", "c", "t", "i", "o", "n", " ", "d", "o", "T", "h", "i", "n", "g", "(", ")", " ", "{", " ", "t", "h", "r", "o", "w", " ", "n", "e", "w", " ", "T", "y", "p", "e", "E", "r", "r", "o", "r", "(", ")", ";", " ", "}">> >>]
\* a dependency: excluded from the keyword search
VendoredJs ==
  [path |-> <<"n", "o", "d", "e", "_", "m", "o", "d", "u", "l", "e", "s", "/", "a", "c", "m", "e", "/", "l", "o", "g", "i", "n", ".", "j", "s">>, readable |-> TRUE,
   lines |-> << <<"e", "x", "p", "o", "r", "t", "s", ".", "l", "o", "g", "i", "n", " ", "=", " ", "f", "u", "n", "c", "t", "i", "o", "n", " ", "l", "o", "g", "i", "n", "(", ")", " ", "{", "}", ";">> >>]
\* not a source file of the search glob
Readme ==
  [path |-> <<"R", "E", "A", "D", "M", "E", ".", "m", "d">>, readable |-> TRUE,
   lines |-> << <<"#", " ", "a", "c", "m", "e", " ", "l", "o", "g", "i", "n">> >>]
\* a source file the process may not read
LockedPy ==
  [path |-> <<"t", "o", "o", "l", "s", "/", "l", "o", "a", "d", "e", "r", ".", "p", "y">>, readable |-> FALSE,
   lines |-> << <<"c", "l", "a", "s", "s", " ", "L", "o", "a", "d", "e", "r", ":", " ", "p", "a", "s", "s">> >>]

\* the workspaces an analysis is run in: the files, in findFiles order
Workspaces ==
  { <<AuthJava, LoginTs, VendoredJs, Readme>>,
    <<UtilsJs, LockedPy, ShortAuthJava, LoginTs>>,
    <<>> }

\* the issues analysed
Issues ==
  { \* the end-to-end example: a frame in the prose, under no heading
    [key |-> <<"B", "U", "G", "-", "1">>, summary |-> <<"L", "o", "g", "i", "n", " ", "f", "a", "i", "l", "s">>, priority |-> <<"H", "i", "g", "h">>,
     description |-> <<"N", "u", "l", "l", "P", "o", "i", "n", "t", "e", "r", "E", "x", "c", "e", "p", "t", "i", "o", "n", " ", "a", "t", " ", "c", "o", "m", ".", "a", "c", "m", "e", ".", "A", "u", "t", "h", ".", "l", "o", "g", "i", "n", "(", "A", "u", "t", "h", ".", "j", "a", "v", "a", ":", "8", "8", ")">>],
    \* the same frame under a stack-trace heading
    [key |-> <<"B", "U", "G", "-", "2">>, summary |-> <<"L", "o", "g", "i", "n", " ", "f", "a", "i", "l", "s">>, priority |-> <<"H", "i", "g", "h">>,
     description |->
       <<"N", "u", "l", "l", "P", "o", "i", "n", "t", "e", "r", "E", "x", "c", "e", "p", "t", "i", "o", "n", "\n", "S", "t", "a", "c", "k", " ", "t", "r", "a", "c", "e", ":", "\n", "\t", "a", "t", " ", "c", "o", "m", ".", "a", "c", "m", "e", ".", "A", "u", "t", "h", ".", "l", "o", "g", "i", "n", "(", "A", "u", "t", "h", ".", "j", "a", "v", "a", ":", "8", "8", ")">>],
    \* a JS trace followed by another section
    [key |-> <<"B", "U", "G", "-", "3">>, summary |-> <<"L", "o", "a", "d", "e", "r", " ", "h", "a", "n", "g", "s">>, priority |-> <<"L", "o", "w">>,
     description |->
       <<"S", "t", "a", "c", "k", "t", "r", "a", "c", "e", ":", " ", "T", "y", "p", "e", "E", "r", "r", "o", "r", "\n", " ", " ", " ", " ", "a", "t", " ", "d", "o", "T", "h", "i", "n", "g", " ", "(", "l", "i", "b", "/", "u", "t", "i", "l", "s", ".", "j", "s", ":", "1", "0", ":", "5", ")", "\n", "\n", "#", "#", " ", "N", "o", "t", "e", "s", "\n", "s", "e", "e", "n", " ", "w", "h", "e", "n", " ", "l", "o", "a", "d", "i", "n", "g">>],
    \* no trace at all
    [key |-> <<"B", "U", "G", "-", "4">>, summary |-> <<"C", "l", "a", "s", "s", " ", "l", "o", "a", "d", "e", "r", " ", "h", "a", "n", "g", "s">>, priority |-> <<"L", "o", "w">>,
     description |-> <<"w", "h", "e", "n", " ", "l", "o", "a", "d", "i", "n", "g", " ", "w", "i", "t", "h", " ", "t", "h", "e", " ", "c", "l", "a", "s", "s", "i", "c", " ", "l", "o", "a", "d", "e", "r">>],
    \* two frames, the first of a file the workspace does not hold
    [key |-> <<"B", "U", "G", "-", "5">>, summary |-> <<"L", "o", "g", "i", "n", " ", "f", "a", "i", "l", "s">>, priority |-> <<"H", "i", "g", "h">>,
     description |->
       <<"U+5806", "U+6808", "U+8DDF", "U+8E2A", "U+FF1A", "\n", "a", "t", " ", "a", ".", "G", "o", "n", "e", ".", "r", "u", "n", "(", "G", "o", "n", "e", ".", "j", "a", "v", "a", ":", "3", ")", "\n", "a", "t", " ", "c", "o", "m", ".", "a", "c", "m", "e", ".", "A", "u", "t", "h", ".", "l", "o", "g", "i", "n", "(", "A", "u", "t", "h", ".", "j", "a", "v", "a", ":", "8", "8", ")">>],
    \* the sections of a report, and no trace
    [key |-> <<"B", "U", "G", "-", "7">>, summary |-> <<"L", "o", "a", "d", "e", "r", " ", "h", "a", "n", "g", "s">>, priority |-> <<"L", "o", "w">>,
     description |->
       <<"S", "t", "e", "p", "s", " ", "t", "o", " ", "R", "e", "p", "r", "o", "d", "u", "c", "e", ":", "\n", "-", " ", "s", "t", "e", "p", "1", "\n", "-", " ", "s", "t", "e", "p", "2", "\n", "\n", "E", "x", "p", "e", "c", "t", "e", "d", ":", " ", "X", "\n", "A", "c", "t", "u", "a", "l", ":", " ", "Y">>],
    \* two frames, the first of a file that one workspace holds unreadable
    [key |-> <<"B", "U", "G", "-", "1", "4">>, summary |-> <<"L", "o", "a", "d", "e", "r", " ", "h", "a", "n", "g", "s">>, priority |-> <<"L", "o", "w">>,
     description |->
       <<"S", "t", "a", "c", "k", " ", "t", "r", "a", "c", "e", ":", "\n", "a", "t", " ", "t", "o", "o", "l", "s", ".", "L", "o", "a", "d", "e", "r", ".", "r", "u", "n", "(", "l", "o", "a", "d", "e", "r", ".", "p", "y", ":", "1", ")", "\n", "a", "t", " ", "c", "o", "m", ".", "a", "c", "m", "e", ".", "A", "u", "t", "h", ".", "l", "o", "g", "i", "n", "(", "A", "u", "t", "h", ".", "j", "a", "v", "a", ":", "2", ")">>],
    \* nothing but a summary
    [key |-> <<"B", "U", "G", "-", "6">>, summary |-> <<"B", "u", "g">>, priority |-> <<"L", "o", "w">>,
     description |-> <<>>] }

\* the commits `git log` finds for a file
FixCommit ==
  [hash |-> <<"a", "1", "f", "3">>, author |-> <<"a", "m", "y">>, date |-> <<"2", "0", "2", "4", "-", "0", "3", "-", "0", "1">>,
   subject |-> <<"f", "i", "x", ":", " ", "n", "u", "l", "l", " ", "p", "o", "i", "n", "t", "e", "r", " ", "i", "n", " ", "p", "a", "r", "s", "e", "r">>]
RefactorCommit ==
  [hash |-> <<"b", "2", "e", "4">>, author |-> <<"b", "o", "b">>, date |-> <<"2", "0", "2", "4", "-", "0", "2", "-", "1", "1">>,
   subject |-> <<"r", "e", "f", "a", "c", "t", "o", "r", ":", " ", "r", "e", "n", "a", "m", "e", " ", "v", "a", "r", "i", "a", "b", "l", "e">>]
PatchCommit ==
  [hash |-> <<"c", "3", "d", "5">>, author |-> <<"l", "i">>, date |-> <<"2", "0", "2", "4", "-", "0", "1", "-", "2", "0">>,
   subject |-> <<"P", "a", "t", "c", "h", " ", "l", "o", "g", "i", "n", " ", "t", "i", "m", "e", "o", "u", "t">>]
\* --pretty=format:"%H|%an|%ad|%s": one line per commit
formatCommit(c) == join(<<c.hash, c.author, c.date, c.subject>>, "|")
formatLog(commits) == join([i \in 1..Len(commits) |-> formatCommit(commits[i])], "\n")

\* what `git log -10 --pretty=format:"%H|%an|%ad|%s" --date=short -- <file>`
\* answers: the exec rejects (ok = FALSE) or resolves with the log as stdout
GitReplies ==
  { [ok |-> FALSE, commits |-> <<>>],
    [ok |-> TRUE, commits |-> <<>>],
    [ok |-> TRUE, commits |-> <<FixCommit, RefactorCommit>>],
    [ok |-> TRUE, commits |-> <<PatchCommit>>] }

\* what client.chat answers: it rejects (ok = FALSE) or resolves with content
ChatReplies ==
  { [ok |-> FALSE, content |-> <<>>],
    [ok |-> TRUE, content |-> <<"c", "h", "e", "c", "k", " ", "t", "h", "e", " ", "n", "u", "l", "l", " ", "g", "u", "a", "r", "d">>] }

\* ------------------------------------------------------------------ state
VARIABLES
  issue,                \* the IJiraIssue handed to extractBugInfo
  workspace,            \* the files of the workspace folder
  pc,                   \* where the analysis stands
  bugInfo,              \* extractBugInfo's result
  keywords,             \* searchRelatedCode: extractKeywords' result
  searchResults,        \* analyzeBug: searchRelatedCode's result
  stackTraceLocations,  \* analyzeBug: parseStackTrace's result, or []
  history,              \* analyzeCodeChanges: its loop's locals
  gitLog,               \* the git log commands run so far, with their replies
  relatedChanges,       \* analyzeBug: analyzeCodeChanges' result
  analysis,             \* analyzeBug's result
  stages,               \* analyzeBug: the stages run so far, each failed or not
  traceLines,           \* frame parser alone: the lines the trace is made of
  stackTrace,           \* frame parser alone: the text parsed
  frames,               \* frame parser alone: extractStackTraceFrames' result
  parsed,               \* frame parser alone: whether it has run
  calls,                \* generateFixSuggestion: the calls awaited so far
  suggestion,           \* generateFixSuggestion: the suggestion returned
  failure,              \* generateFixSuggestion: the message of the error thrown
  client,               \* AIService._client: 0 for null, or the AIClient's number
  constructed,          \* AIService: the number of AIClients constructed so far
  discarded,            \* AIService: the clients resetClient has dropped, in order
  callers               \* AIService: where each caller of getClient stands

vars ==
  <<issue, workspace, pc, bugInfo, keywords, searchResults, stackTraceLocations,
    history, gitLog, relatedChanges, analysis, stages,
    traceLines, stackTrace, frames, parsed, calls, suggestion, failure,
    client, constructed, discarded, callers>>
analysisVars ==
  <<issue, workspace, pc, bugInfo, keywords, searchResults, stackTraceLocations,
    history, gitLog, relatedChanges, analysis, stages>>
parserVars == <<traceLines, stackTrace, frames, parsed>>
fixVars == <<calls, suggestion, failure>>
serviceVars == <<client, constructed, discarded, callers>>

NoBugInfo ==
  [issueKey |-> <<>>, summary |-> <<>>, description |-> <<>>,
   stepsToReproduce |-> <<>>, expectedBehavior |-> <<>>, actualBehavior |-> <<>>,
   environment |-> <<>>, stackTrace |-> Undefined, severity |-> <<>>]
NoHistory == [index |-> 0, analyzedFiles |-> {}, changes |-> <<>>]
NoAnalysis ==
  [possibleCauses |-> <<>>, suggestedLocations |-> <<>>,
   relatedChanges |-> <<>>, analysisNotes |-> <<>>]

\* a stage of analyzeBug that has run: whether its catch block ran
Stage(name, failed) == [stage |-> name, failed |-> failed]

AnalysisIdle ==
  /\ bugInfo = NoBugInfo
  /\ keywords = <<>>
  /\ searchResults = <<>>
  /\ stackTraceLocations = <<>>
  /\ history = NoHistory
  /\ gitLog = <<>>
  /\ relatedChanges = <<>>
  /\ analysis = NoAnalysis
  /\ stages = <<>>
ParserIdle ==
  /\ traceLines = <<>>
  /\ stackTrace = <<>>
  /\ frames = <<>>
  /\ parsed = FALSE
FixIdle ==
  /\ calls = <<>>
  /\ suggestion = NoSuggestion
  /\ failure = <<>>
\* an AIService on which nobody has called getClient
ServiceIdle ==
  /\ client = 0
  /\ constructed = 0
  /\ discarded = <<>>
  /\ callers = <<>>

\* an issue is fetched and a workspace folder is open
Init ==
  /\ issue \in Issues
  /\ workspace \in Workspaces
  /\ pc = "start"
  /\ AnalysisIdle
  /\ ParserIdle
  /\ FixIdle
  /\ ServiceIdle

\* ---------------------------------------------------------------- actions
extractBugInfo(i) ==
  [issueKey         |-> i.key,
   summary          |-> i.summary,
   description      |-> i.description,
   stepsToReproduce |-> extractStepsToReproduce(i.description),
   expectedBehavior |-> extractExpectedBehavior(i.description),
   actualBehavior   |-> extractActualBehavior(i.description),
   environment      |-> extractEnvironment(i.description),
   stackTrace       |-> extractStackTrace(i.description),
   severity         |-> i.priority]

ExtractBugInfo ==
  /\ pc = "start"
  /\ bugInfo' = extractBugInfo(issue)
  /\ pc' = "extracted"
  /\ UNCHANGED <<issue, workspace, searchResults, stackTraceLocations, history,
                 gitLog, relatedChanges, analysis>>
  /\ UNCHANGED <<keywords, stages>>
  /\ UNCHANGED parserVars
  /\ UNCHANGED serviceVars
  /\ UNCHANGED fixVars

\* analyzeBug, to its first await: the keyword search; findFiles may reject,
\* which searchRelatedCode catches to return []
SearchRelatedCode ==
  /\ pc = "extracted"
  /\ \E findFilesRejects \in BOOLEAN :
       /\ searchResults' = IF findFilesRejects THEN <<>>
                           ELSE searchRelatedCode(bugInfo, workspace)
       /\ stages' = Append(stages, Stage("search", findFilesRejects))
  /\ keywords' = extractKeywords(bugInfo)
  /\ pc' = "searched"
  /\ UNCHANGED <<issue, workspace, bugInfo, stackTraceLocations, history,
                 gitLog, relatedChanges, analysis>>
  /\ UNCHANGED parserVars
  /\ UNCHANGED serviceVars
  /\ UNCHANGED fixVars

\* bugInfo.stackTrace ? await this.parseStackTrace(...) : []
ParseStackTrace ==
  /\ pc = "searched"
  /\ stackTraceLocations' =
       IF bugInfo.stackTrace # Undefined /\ bugInfo.stackTrace # <<>>
         THEN parseStackTrace(bugInfo.stackTrace, workspace)
         ELSE <<>>
  /\ stages' = Append(stages, Stage("stackTrace",
                        /\ bugInfo.stackTrace # Undefined
                        /\ bugInfo.stackTrace # <<>>
                        /\ parseStackTraceFails(bugInfo.stackTrace, workspace)))
  /\ history' = NoHistory
  /\ pc' = "history"
  /\ UNCHANGED <<issue, workspace, bugInfo, searchResults, gitLog,
                 relatedChanges, analysis>>
  /\ UNCHANGED keywords
  /\ UNCHANGED parserVars
  /\ UNCHANGED serviceVars
  /\ UNCHANGED fixVars

\* [...searchResults, ...stackTraceLocations]
mergedLocations == searchResults \o stackTraceLocations
\* locations.slice(0, 5)
historyLocations == take(mergedLocations, HistoryLocations)
\* the locations the loop has yet to reach whose file is not analysed
pendingLocations ==
  {k \in (history.index + 1)..Len(historyLocations) :
     joinPath(WorkspaceRoot, historyLocations[k].filePath) \notin history.analyzedFiles}

\* analyzeCodeChanges: the loop up to and through one `git log` answered by
\* one of replies, the locations of files already analysed skipped; a
\* rejected exec, or a log line without a message, throws into the catch
\* that returns []
queryLog(replies) ==
  /\ pc = "history"
  /\ pendingLocations # {}
  /\ LET k        == Min(pendingLocations)
         location == historyLocations[k]
     IN \E reply \in replies :
          /\ gitLog' = Append(gitLog, [filePath |-> location.filePath, reply |-> reply])
          /\ IF \/ ~reply.ok
                \/ \E c \in Range(commitLines(formatLog(reply.commits))) : commitThrows(c)
               THEN /\ relatedChanges' = <<>>
                    /\ stages' = Append(stages, Stage("history", TRUE))
                    /\ pc' = "correlated"
                    /\ UNCHANGED history
               ELSE /\ history' =
                         [index         |-> k,
                          analyzedFiles |-> history.analyzedFiles
                                            \cup {joinPath(WorkspaceRoot, location.filePath)},
                          changes       |-> history.changes
                                            \o commitRecords(formatLog(reply.commits),
                                                             location.filePath)]
                    /\ UNCHANGED <<relatedChanges, pc, stages>>
  /\ UNCHANGED <<issue, workspace, bugInfo, searchResults, stackTraceLocations,
                 analysis>>
  /\ UNCHANGED keywords
  /\ UNCHANGED parserVars
  /\ UNCHANGED serviceVars
  /\ UNCHANGED fixVars

AnalyzeCodeChangesQuery == queryLog(GitReplies)

\* analyzeCodeChanges: the loop is over, return changes
AnalyzeCodeChangesReturn ==
  /\ pc = "history"
  /\ pendingLocations = {}
  /\ relatedChanges' = history.changes
  /\ stages' = Append(stages, Stage("history", FALSE))
  /\ pc' = "correlated"
  /\ UNCHANGED <<issue, workspace, bugInfo, searchResults, stackTraceLocations,
                 history, gitLog, analysis>>
  /\ UNCHANGED keywords
  /\ UNCHANGED parserVars
  /\ UNCHANGED serviceVars
  /\ UNCHANGED fixVars

AIUnavailable == <<"A", "I", "U+5206", "U+6790", "U+6682", "U+65F6", "U+4E0D", "U+53EF", "U+7528">>
\* performAIAnalysis, were its catch block to return no note
performAIAnalysisWithoutNote(reply) ==
  [possibleCauses |-> <<>>,
   analysisNotes  |-> IF reply.ok THEN <<reply.content>> ELSE <<>>]
\* performAIAnalysis: the chat's content as the one note, or the fallback note
performAIAnalysis(reply) ==
  [possibleCauses |-> <<>>,
   analysisNotes  |-> IF reply.ok THEN <<reply.content>> ELSE <<AIUnavailable>>]

\* analyzeBug, from the AI call to its return
PerformAIAnalysis ==
  /\ pc = "correlated"
  /\ \E reply \in ChatReplies :
       /\ stages' = Append(stages, Stage("ai", ~reply.ok))
       /\ analysis' = [possibleCauses     |-> performAIAnalysis(reply).possibleCauses,
                    suggestedLocations |-> mergedLocations,
                    relatedChanges     |-> relatedChanges,
                    analysisNotes      |-> performAIAnalysis(reply).analysisNotes]
  /\ pc' = "done"
  /\ UNCHANGED <<issue, workspace, bugInfo, searchResults, stackTraceLocations,
                 history, gitLog, relatedChanges>>
  /\ UNCHANGED keywords
  /\ UNCHANGED parserVars
  /\ UNCHANGED serviceVars
  /\ UNCHANGED fixVars

Next ==
  \/ ExtractBugInfo
  \/ SearchRelatedCode
  \/ ParseStackTrace
  \/ AnalyzeCodeChangesQuery
  \/ AnalyzeCodeChangesReturn
  \/ PerformAIAnalysis

Spec == Init /\ [][Next]_vars

\* ------------------------------------------------- the frame parser alone
\* the segments a qualified method name is drawn from
Idents == { <<"F", "o", "o">>, <<"b", "a", "r">> }
\* the sequences over S of 1 to n elements
RECURSIVE SeqsUpTo(_, _)
SeqsUpTo(S, n) ==
  IF n = 0 THEN {}
  ELSE LET shorter == SeqsUpTo(S, n - 1)
       IN {<<x>> : x \in S} \cup shorter \cup {Append(s, x) : s \in shorter, x \in S}

\* a line number as written in a trace, with the number it denotes
LineFields ==
  { [text |-> <<"4", "2">>, value |-> 42], [text |-> <<"0">>, value |-> 0] }

\* Java-style lines: at <fully.qualified.Method>(<File>:<line>)
JavaLines ==
  [kind   : {"java"},
   indent : {<<>>, <<"\t">>},
   method : SeqsUpTo(Idents, MaxSegs)
            \cup {<< <<"c", "o", "m">>, <<"a", "c", "m", "e">>, <<"F", "o", "o">>, <<"b", "a", "r">> >>},
   file   : { <<"F", "o", "o", ".", "j", "a", "v", "a">> },
   line   : LineFields]
\* JS/TS-style lines: at <functionName> (<file>:<line>:<col>)
JsLines ==
  [kind   : {"js"},
   indent : {<<>>, <<" ", " ", " ", " ">>},
   fn     : { <<"d", "o", "T", "h", "i", "n", "g">> },
   path   : { <<"u", "t", "i", "l", "s", ".", "j", "s">>, <<"/", "a", "p", "p", "/", "s", "r", "c", "/", "u", "t", "i", "l", "s", ".", "j", "s">> },
   line   : { [text |-> <<"1", "0">>, value |-> 10] },
   col    : { <<"5">> }]
\* lines of neither grammar
OtherLines ==
  [kind : {"other"},
   text : { <<"T", "y", "p", "e", "E", "r", "r", "o", "r", ":", " ", "x", " ", "i", "s", " ", "n", "o", "t", " ", "a", " ", "f", "u", "n", "c", "t", "i", "o", "n">>,
            <<"C", "a", "u", "s", "e", "d", " ", "b", "y", ":", " ", "j", "a", "v", "a", ".", "l", "a", "n", "g", ".", "N", "u", "l", "l", "P", "o", "i", "n", "t", "e", "r", "E", "x", "c", "e", "p", "t", "i", "o", "n">>,
            <<>> }]

renderLine(d) ==
  CASE d.kind = "java" ->
         d.indent \o <<"a", "t", " ">> \o join(d.method, ".") \o <<"(">> \o d.file
                  \o <<":">> \o d.line.text \o <<")">>
    [] d.kind = "js" ->
         d.indent \o <<"a", "t", " ">> \o d.fn \o <<" ", "(">> \o d.path \o <<":">> \o d.line.text
                  \o <<":">> \o d.col \o <<")">>
    [] OTHER -> d.text
renderTrace(ds) == join([i \in 1..Len(ds) |-> renderLine(ds[i])], "\n")

\* the lines the traces of several lines are made of
CoreLines ==
  { [kind |-> "java", indent |-> <<"\t">>, method |-> << <<"F", "o", "o">>, <<"b", "a", "r">> >>,
     file |-> <<"F", "o", "o", ".", "j", "a", "v", "a">>, line |-> [text |-> <<"4", "2">>, value |-> 42]],
    [kind |-> "js", indent |-> <<" ", " ", " ", " ">>, fn |-> <<"d", "o", "T", "h", "i", "n", "g">>, path |-> <<"u", "t", "i", "l", "s", ".", "j", "s">>,
     line |-> [text |-> <<"1", "0">>, value |-> 10], col |-> <<"5">>],
    [kind |-> "other", text |-> <<"C", "a", "u", "s", "e", "d", " ", "b", "y", ":", " ", "j", "a", "v", "a", ".", "l", "a", "n", "g", ".", "N", "u", "l", "l", "P", "o", "i", "n", "t", "e", "r", "E", "x", "c", "e", "p", "t", "i", "o", "n">>] }

TraceInputs ==
  {<<d>> : d \in JavaLines \cup JsLines \cup OtherLines}
  \cup SeqsUpTo(CoreLines, MaxTraceLines)

InitParser ==
  /\ traceLines \in TraceInputs
  /\ stackTrace = renderTrace(traceLines)
  /\ frames = <<>>
  /\ parsed = FALSE
  /\ issue = [key |-> <<>>, summary |-> <<>>, priority |-> <<>>, description |-> <<>>]
  /\ workspace = <<>>
  /\ pc = "idle"
  /\ AnalysisIdle
  /\ FixIdle
  /\ ServiceIdle

ExtractStackTraceFrames ==
  /\ ~parsed
  /\ pc = "idle"
  /\ frames' = extractStackTraceFrames(stackTrace)
  /\ parsed' = TRUE
  /\ UNCHANGED <<traceLines, stackTrace>>
  /\ UNCHANGED analysisVars
  /\ UNCHANGED fixVars
  /\ UNCHANGED serviceVars

NextParser == ExtractStackTraceFrames

SpecParser == InitParser /\ [][NextParser]_vars

\* ----------------------------------------------- the keyword search alone
\* the lines the generated file is made of
LineChoices ==
  { <<>>,
    <<"c", "l", "a", "s", "s", " ", "L", "o", "a", "d", "e", "r", " ", "{">>,
    <<"/", "/", " ", "t", "h", "e", " ", "c", "l", "a", "s", "s", "i", "c", " ", "l", "o", "a", "d", "e", "r", " ", "h", "a", "n", "g", "s">>,
    <<" ", " ", "L", "O", "A", "D", "I", "N", "G", " ", "=", " ", "t", "r", "u", "e", ";">>,
    <<"r", "e", "t", "u", "r", "n", " ", "0", ";">> }
GeneratedFiles ==
  {[path |-> <<"s", "r", "c", "/", "g", "e", "n", ".", "t", "s">>, readable |-> TRUE, lines |-> ls] :
     ls \in SeqsUpTo(LineChoices, MaxFileLines)}
SearchIssues ==
  { [key |-> <<"B", "U", "G", "-", "8">>, summary |-> <<"C", "l", "a", "s", "s", " ", "l", "o", "a", "d", "e", "r", " ", "h", "a", "n", "g", "s">>, priority |-> <<"L", "o", "w">>,
     description |-> <<>>],
    [key |-> <<"B", "U", "G", "-", "9">>, summary |-> <<"C", "l", "a", "s", "s", "i", "c", " ", "l", "o", "a", "d", "i", "n", "g">>, priority |-> <<"L", "o", "w">>,
     description |-> <<"t", "h", "e", " ", "l", "o", "a", "d", "e", "r">>] }
\* an issue of 12 distinct tokens that qualify as keywords, the first of them
\* twice, one with a capital letter, around a stopword and a short token
ManyWordsIssue ==
  [key |-> <<"B", "U", "G", "-", "1", "2">>, summary |-> <<"A", "l", "p", "h", "a", " ", "b", "r", "a", "v", "o", " ", "w", "i", "t", "h", " ", "c", "h", "a", "r", "l", "i", "e">>, priority |-> <<"L", "o", "w">>,
   description |-> <<"a", "l", "p", "h", "a", " ", "a", "p", "p", " ", "d", "e", "l", "t", "a", " ", "e", "c", "h", "o", "_", "1", " ", "f", "o", "x", "t", "r", "o", "t", " ", "g", "o", "l", "f", " ", "h", "o", "t", "e", "l", " ", "i", "n", "d", "i", "a", "-", "j", "u", "l", "i", "e", "t", " ", "k", "i", "l", "o", " ", "l", "i", "m", "a">>]
\* a file whose first line names the 10 keywords of that issue, one of them
\* twice, and whose second line names one
TenWordsTs ==
  [path |-> <<"s", "r", "c", "/", "w", "o", "r", "d", "s", ".", "t", "s">>, readable |-> TRUE,
   lines |-> << <<"/", "/", " ", "A", "l", "p", "h", "a", " ", "b", "r", "a", "v", "o", " ", "c", "h", "a", "r", "l", "i", "e", " ", "d", "e", "l", "t", "a", " ", "e", "c", "h", "o", "_", "1", " ", "f", "o", "x", "t", "r", "o", "t", " ", "g", "o", "l", "f", " ", "h", "o", "t", "e", "l", " ", "i", "n", "d", "i", "a", " ", "j", "u", "l", "i", "e", "t", " ", "g", "o", "l", "f">>,
                <<"c", "o", "n", "s", "t", " ", "k", "i", "l", "o", " ", "=", " ", "g", "o", "l", "f", ";">> >>]
\* the words the generated summaries are made of
SummaryWords == { <<"C", "r", "a", "s", "h">>, <<"c", "r", "a", "s", "h">>, <<"w", "i", "t", "h">>, <<"s", "a", "v", "e", "-", "f", "i", "l", "e">> }
\* issues for the keywords alone
KeywordIssues ==
  {ManyWordsIssue} \cup
  {[key |-> <<"B", "U", "G", "-", "1", "3">>, summary |-> join(ws, " "), priority |-> <<"L", "o", "w">>,
    description |-> d] :
     ws \in SeqsUpTo(SummaryWords, MaxSummaryWords), d \in {<<>>, <<"T", "h", "e", "n", " ", "i", "t", " ", "f", "a", "i", "l", "s", ".">>}}
\* the k-th file of the large workspace: of one line, which names the loader
\* in the first two files and in the two around the end of the scan; the
\* second file cannot be read
ManyFile(k) ==
  [path     |-> <<"s", "r", "c", "/", "m">> \o toString(k) \o <<".", "t", "s">>,
   readable |-> k # 2,
   lines    |-> << IF k \in {1, 2, MaxScanFiles, MaxScanFiles + 1}
                     THEN <<"l", "o", "a", "d", "e", "r", ".", "s", "t", "a", "r", "t", "(", ")", ";">> ELSE <<"r", "e", "t", "u", "r", "n", " ", "0", ";">> >>]
\* a workspace of two source files more than one scan reads, after a file
\* that the glob does not match
ManyFiles == <<Readme>> \o [k \in 1..(MaxScanFiles + 2) |-> ManyFile(k)]
LoaderIssue ==
  [key |-> <<"B", "U", "G", "-", "8">>, summary |-> <<"C", "l", "a", "s", "s", " ", "l", "o", "a", "d", "e", "r", " ", "h", "a", "n", "g", "s">>, priority |-> <<"L", "o", "w">>,
   description |-> <<>>]

\* the searches run: those of the analyses above, and the two issues over
\* each generated file, alone and followed by lib/utils.js
SearchInputs ==
  (Issues \X Workspaces)
  \cup (KeywordIssues \X {<<>>})
  \cup {<<LoaderIssue, ManyFiles>>, <<ManyWordsIssue, <<TenWordsTs>> >>}
  \cup (SearchIssues \X ({<<g>> : g \in GeneratedFiles}
                         \cup {<<g, UtilsJs>> : g \in GeneratedFiles}))

\* analyzeBug is called with the bug information of an issue
InitSearch ==
  /\ \E in \in SearchInputs :
       /\ issue = in[1]
       /\ workspace = in[2]
  /\ bugInfo = extractBugInfo(issue)
  /\ pc = "extracted"
  /\ keywords = <<>>
  /\ stages = <<>>
  /\ searchResults = <<>>
  /\ stackTraceLocations = <<>>
  /\ history = NoHistory
  /\ gitLog = <<>>
  /\ relatedChanges = <<>>
  /\ analysis = NoAnalysis
  /\ ParserIdle
  /\ FixIdle
  /\ ServiceIdle

NextSearch == SearchRelatedCode

SpecSearch == InitSearch /\ [][NextSearch]_vars

\* ------------------------------------------- the history correlation alone
\* the words the generated commit subjects are made of
SubjectWords ==
  { <<"f", "i", "x", ":">>, <<"P", "a", "t", "c", "h">>, <<"r", "e", "f", "a", "c", "t", "o", "r">>, <<"r", "e", "n", "a", "m", "e">>, <<"U+4FEE", "U+590D">>, <<"I", "S", "S", "U", "E", "-", "7">>, <<"u", "i", "|", "a", "p", "i">> }
GeneratedCommits ==
  {[hash |-> <<"d", "4", "e", "6">>, author |-> <<"a", "m", "y">>, date |-> <<"2", "0", "2", "4", "-", "0", "3", "-", "0", "2">>,
    subject |-> join(ws, " ")] : ws \in SeqsUpTo(SubjectWords, MaxSubjectWords)}
LogReplies ==
  GitReplies \cup {[ok |-> TRUE, commits |-> <<c>>] : c \in GeneratedCommits}

\* the one candidate location whose file's log is queried
LogLocation ==
  [filePath |-> <<"l", "i", "b", "/", "u", "t", "i", "l", "s", ".", "j", "s">>, lineNumber |-> 1, content |-> <<"c", "l", "a", "s", "s", " ", "L", "o", "a", "d", "e", "r", " ", "{">>,
   relevanceScore |-> 1, context |-> [before |-> <<>>, after |-> <<>>]]

\* analyzeCodeChanges is called with one location
InitLog ==
  /\ issue = [key |-> <<"B", "U", "G", "-", "4">>, summary |-> <<"C", "l", "a", "s", "s", " ", "l", "o", "a", "d", "e", "r", " ", "h", "a", "n", "g", "s">>,
              priority |-> <<"L", "o", "w">>, description |-> <<>>]
  /\ workspace = <<UtilsJs>>
  /\ bugInfo = extractBugInfo(issue)
  /\ pc = "history"
  /\ keywords = extractKeywords(bugInfo)
  /\ stages = <<Stage("search", FALSE), Stage("stackTrace", FALSE)>>
  /\ searchResults = <<LogLocation>>
  /\ stackTraceLocations = <<>>
  /\ history = NoHistory
  /\ gitLog = <<>>
  /\ relatedChanges = <<>>
  /\ analysis = NoAnalysis
  /\ ParserIdle
  /\ FixIdle
  /\ ServiceIdle

AnalyzeCodeChangesQueryAny == queryLog(LogReplies)

NextLog ==
  \/ AnalyzeCodeChangesQueryAny
  \/ AnalyzeCodeChangesReturn

SpecLog == InitLog /\ [][NextLog]_vars

\* ---------------------------------------------------- the extraction alone
\* the lines the generated descriptions are made of
DescriptionLines ==
  { <<>>,
    <<"S", "t", "e", "p", "s", " ", "t", "o", " ", "R", "e", "p", "r", "o", "d", "u", "c", "e", ":">>,
    <<"-", " ", "s", "t", "e", "p", "1">>,
    <<" ", "2", ".", " ", "s", "t", "e", "p", "2">>,
    <<"E", "x", "p", "e", "c", "t", "e", "d", ":", " ", "X">>,
    <<"A", "c", "t", "u", "a", "l", ":", " ", "Y">>,
    <<"U+73AF", "U+5883", "U+FF1A", "p", "r", "o", "d">>,
    <<"I", "t", " ", "c", "r", "a", "s", "h", "e", "d", ".">> }
ExtractIssues ==
  Issues \cup
  {[key |-> <<"B", "U", "G", "-", "1", "0">>, summary |-> <<"B", "u", "g">>, priority |-> <<"L", "o", "w">>,
    description |-> join(ls, "\n")] : ls \in SeqsUpTo(DescriptionLines, MaxDescriptionLines)}

\* an issue is fetched
InitExtract ==
  /\ issue \in ExtractIssues
  /\ workspace = <<>>
  /\ pc = "start"
  /\ AnalysisIdle
  /\ ParserIdle
  /\ FixIdle
  /\ ServiceIdle

SpecExtract == InitExtract /\ [][ExtractBugInfo]_vars

\* ------------------------------------------------ the fix suggestion alone
\* the JSON texts of the values a member of a generated object has, the
\* empty text for an object without the member
TypeTexts ==
  { <<>>, <<"\"", "s", "i", "m", "p", "l", "e", "\"">>, <<"\"", "c", "o", "m", "p", "l", "e", "x", "\"">>, <<"\"", "m", "e", "d", "i", "u", "m", "\"">>, <<"n", "u", "l", "l">>, <<"0">> }
FixStepsTexts ==
  { <<>>, <<"[", "\"", "A", "d", "d", " ", "a", " ", "n", "u", "l", "l", " ", "c", "h", "e", "c", "k", "\"", "]">>, <<"[", "]">>, <<"\"", "r", "e", "s", "t", "a", "r", "t", "\"">> }
RootCauseTexts == { <<>>, <<"\"", "N", "u", "l", "l", " ", "c", "o", "n", "f", "i", "g", "\"">> }

\* the text of the object that has the members whose text is not empty
renderObject(members) ==
  LET present == SelectSeq(members, LAMBDA m : m[2] # <<>>)
  IN <<"{">>
     \o join([k \in 1..Len(present) |->
                <<"\"">> \o present[k][1] \o <<"\"", ":", " ">> \o present[k][2]], ",")
     \o <<"}">>

\* the completions the collaborator returns: objects, values that are not
\* objects, and texts that are not JSON
ResponseTexts ==
  { renderObject(<< <<<<"t", "y", "p", "e">>, t>>, <<<<"f", "i", "x", "S", "t", "e", "p", "s">>, f>>, <<<<"r", "o", "o", "t", "C", "a", "u", "s", "e">>, r>> >>) :
      t \in TypeTexts, f \in FixStepsTexts, r \in RootCauseTexts }
  \cup { <<>>, <<"n", "u", "l", "l">>, <<" ", "4", "2", " ">>, <<"\"", "r", "e", "s", "t", "a", "r", "t", " ", "t", "h", "e", " ", "s", "e", "r", "v", "i", "c", "e", "\"">>, <<"[", "]">>, <<"t", "r", "u", "e">>,
         <<"T", "h", "e", " ", "r", "o", "o", "t", " ", "c", "a", "u", "s", "e", " ", "i", "s", " ", "a", " ", "n", "u", "l", "l", " ", "c", "o", "n", "f", "i", "g", ".">>,
         <<"U+0060", "U+0060", "U+0060", "j", "s", "o", "n", "\n", "{", "\"", "t", "y", "p", "e", "\"", ":", " ", "\"", "s", "i", "m", "p", "l", "e", "\"", "}", "\n", "U+0060", "U+0060", "U+0060">>,
         <<"{", "\"", "t", "y", "p", "e", "\"", ":", " ", "\"", "s", "i", "m", "p", "l", "e", "\"">>,
         <<"{", "\"", "t", "y", "p", "e", "\"", ":", " ", "\"", "s", "i", "m", "p", "l", "e", "\"", ",", " ", "\"", "t", "y", "p", "e", "\"", ":", " ", "\"", "c", "o", "m", "p", "l", "e", "x", "\"", ",", " ", "\"", "r", "i", "s", "k", "s", "\"", ":", " ", "[", "\"", "n", "o", "n", "e", "\"", ",", " ", "1", "]", "}">> }

\* the errors the HTTP request of chat fails with, as String(error)
RequestErrors ==
  { <<"E", "r", "r", "o", "r", ":", " ", "H", "T", "T", "P", " ", "c", "l", "i", "e", "n", "t", " ", "n", "o", "t", " ", "i", "n", "i", "t", "i", "a", "l", "i", "z", "e", "d">>,
    <<"A", "x", "i", "o", "s", "E", "r", "r", "o", "r", ":", " ", "t", "i", "m", "e", "o", "u", "t", " ", "o", "f", " ", "6", "0", "0", "0", "0", "m", "s", " ", "e", "x", "c", "e", "e", "d", "e", "d">>,
    <<"A", "x", "i", "o", "s", "E", "r", "r", "o", "r", ":", " ", "R", "e", "q", "u", "e", "s", "t", " ", "f", "a", "i", "l", "e", "d", " ", "w", "i", "t", "h", " ", "s", "t", "a", "t", "u", "s", " ", "c", "o", "d", "e", " ", "5", "0", "0">> }

\* AIClient.chat: the response, or the error of its catch block
FixReplies ==
  {[ok |-> TRUE, content |-> t] : t \in ResponseTexts}
  \cup {[ok |-> FALSE, content |-> <<"E", "r", "r", "o", "r", ":", " ", "A", "I", "U+8BF7", "U+6C42", "U+5931", "U+8D25", ":", " ">> \o e] : e \in RequestErrors}

Cause(description) ==
  [description |-> description, confidence |-> 80,
   relatedFiles |-> <<>>, evidence |-> <<>>]
\* the analysis of the login bug in the first workspace: the keyword results
\* and then the frame Auth.java:88, with the commits of a log of 4 entries
LoginIssue ==
  [key |-> <<"B", "U", "G", "-", "2">>, summary |-> <<"L", "o", "g", "i", "n", " ", "f", "a", "i", "l", "s">>, priority |-> <<"H", "i", "g", "h">>,
   description |->
     <<"N", "u", "l", "l", "P", "o", "i", "n", "t", "e", "r", "E", "x", "c", "e", "p", "t", "i", "o", "n", "\n", "S", "t", "a", "c", "k", " ", "t", "r", "a", "c", "e", ":", "\n", "\t", "a", "t", " ", "c", "o", "m", ".", "a", "c", "m", "e", ".", "A", "u", "t", "h", ".", "l", "o", "g", "i", "n", "(", "A", "u", "t", "h", ".", "j", "a", "v", "a", ":", "8", "8", ")">>]
LoginFiles == <<AuthJava, LoginTs, VendoredJs, Readme>>
LoginAnalysis ==
  LET b == extractBugInfo(LoginIssue)
  IN [possibleCauses     |-> <<>>,
      suggestedLocations |-> searchRelatedCode(b, LoginFiles)
                             \o parseStackTrace(b.stackTrace, LoginFiles),
      relatedChanges     |->
        commitRecords(formatLog(<<FixCommit, RefactorCommit, PatchCommit, FixCommit>>),
                      LoginTs.path),
      analysisNotes      |-> <<AIUnavailable>>]
\* the analysis of a bug with one keyword result and two commits
SmallAnalysis ==
  [possibleCauses     |-> <<>>,
   suggestedLocations |-> take(LoginAnalysis.suggestedLocations, 1),
   relatedChanges     |-> take(LoginAnalysis.relatedChanges, 2),
   analysisNotes      |-> <<AIUnavailable>>]
\* the analyses generateFixSuggestion is called with
FixAnalyses ==
  {[possibleCauses |-> causes, suggestedLocations |-> <<>>,
    relatedChanges |-> <<>>, analysisNotes |-> <<>>] :
     causes \in { <<>>, <<Cause(<<"N", "u", "l", "l", " ", "c", "o", "n", "f", "i", "g">>)>>,
                  <<Cause(<<>>), Cause(<<"R", "a", "c", "e">>)>> }}
  \cup {LoginAnalysis, SmallAnalysis}

\* generateFixSuggestion is called with a bug and its analysis
InitFix ==
  /\ issue = [key |-> <<"B", "U", "G", "-", "6">>, summary |-> <<"B", "u", "g">>, priority |-> <<"L", "o", "w">>,
              description |-> <<>>]
  /\ workspace = <<>>
  /\ bugInfo = extractBugInfo(issue)
  /\ analysis \in FixAnalyses
  /\ pc = "suggest"
  /\ keywords = extractKeywords(bugInfo)
  /\ stages = <<>>
  /\ searchResults = <<>>
  /\ stackTraceLocations = <<>>
  /\ history = NoHistory
  /\ gitLog = <<>>
  /\ relatedChanges = <<>>
  /\ ParserIdle
  /\ FixIdle
  /\ ServiceIdle

\* the message of the error generateFixSuggestion's catch block throws
rethrown(error) == error
fixSuggestionError(error) == <<"U+751F", "U+6210", "U+4FEE", "U+590D", "U+5EFA", "U+8BAE", "U+5931", "U+8D25", ":", " ">> \o error

\* generateFixSuggestion, to its first await: getClient
GenerateFixSuggestionGetClient ==
  /\ pc = "suggest"
  /\ \E ok \in BOOLEAN :
       /\ calls' = Append(calls, [call |-> "getClient", ok |-> ok, prompt |-> <<>>,
                               content |-> <<>>])
       /\ IF ok THEN /\ pc' = "chat"
                     /\ UNCHANGED failure
               ELSE /\ pc' = "suggest_failed"
                    /\ failure' = fixSuggestionError(<<"E", "r", "r", "o", "r", ":", " ", "A", "I", "U+5BA2", "U+6237", "U+7AEF", "U+672A", "U+521D", "U+59CB", "U+5316">>)
  /\ UNCHANGED suggestion
  /\ UNCHANGED <<issue, workspace, bugInfo, searchResults, stackTraceLocations,
                 history, gitLog, relatedChanges, analysis>>
  /\ UNCHANGED <<keywords, stages>>
  /\ UNCHANGED parserVars
  /\ UNCHANGED serviceVars

\* generateFixSuggestion, from client.chat to its return or its throw
GenerateFixSuggestionChat ==
  /\ pc = "chat"
  /\ \E reply \in FixReplies :
       /\ calls' = Append(calls, [call |-> "chat", ok |-> reply.ok,
                                  prompt |-> fixPrompt(buildAnalysisContext(bugInfo, analysis)),
                                  content |-> reply.content])
       /\ IF ~reply.ok
            THEN /\ pc' = "suggest_failed"
                 /\ failure' = fixSuggestionError(reply.content)
                 /\ UNCHANGED suggestion
            ELSE LET r == parseFixSuggestion(reply.content, analysis)
                 IN IF r.thrown
                      THEN /\ pc' = "suggest_failed"
                           /\ failure' = fixSuggestionError(
                                <<"T", "y", "p", "e", "E", "r", "r", "o", "r", ":", " ", "C", "a", "n", "n", "o", "t", " ", "r", "e", "a", "d", " ", "p", "r", "o", "p", "e", "r", "t", "i", "e", "s", " ", "o", "f", " ", "n", "u", "l", "l", " ", "(", "r", "e", "a", "d", "i", "n", "g", " ", "'", "t", "y", "p", "e", "'", ")">>)
                           /\ UNCHANGED suggestion
                      ELSE /\ pc' = "suggested"
                           /\ suggestion' = r.value
                           /\ UNCHANGED failure
  /\ UNCHANGED <<issue, workspace, bugInfo, searchResults, stackTraceLocations,
                 history, gitLog, relatedChanges, analysis>>
  /\ UNCHANGED <<keywords, stages>>
  /\ UNCHANGED parserVars
  /\ UNCHANGED serviceVars

NextFix ==
  \/ GenerateFixSuggestionGetClient
  \/ GenerateFixSuggestionChat

SpecFix == InitFix /\ [][NextFix]_vars

\* ---------------------------------------------- the frame resolution alone
\* the lines the generated traces are made of: frames of a file of the
\* workspaces, in and out of its lines, of a file that cannot be read and
\* of a file no workspace holds
FrameLines ==
  { <<"\t", "a", "t", " ", "c", "o", "m", ".", "a", "c", "m", "e", ".", "A", "u", "t", "h", ".", "l", "o", "g", "i", "n", "(", "A", "u", "t", "h", ".", "j", "a", "v", "a", ":", "0", ")">>,
    <<"\t", "a", "t", " ", "c", "o", "m", ".", "a", "c", "m", "e", ".", "A", "u", "t", "h", ".", "l", "o", "g", "i", "n", "(", "A", "u", "t", "h", ".", "j", "a", "v", "a", ":", "2", ")">>,
    <<"\t", "a", "t", " ", "c", "o", "m", ".", "a", "c", "m", "e", ".", "A", "u", "t", "h", ".", "l", "o", "g", "i", "n", "(", "A", "u", "t", "h", ".", "j", "a", "v", "a", ":", "8", "8", ")">>,
    <<"\t", "a", "t", " ", "c", "o", "m", ".", "a", "c", "m", "e", ".", "A", "u", "t", "h", ".", "l", "o", "g", "i", "n", "(", "A", "u", "t", "h", ".", "j", "a", "v", "a", ":", "9", "1", ")">>,
    <<"\t", "a", "t", " ", "t", "o", "o", "l", "s", ".", "l", "o", "a", "d", "e", "r", ".", "l", "o", "a", "d", "(", "l", "o", "a", "d", "e", "r", ".", "p", "y", ":", "1", ")">>,
    <<"\t", "a", "t", " ", "a", ".", "G", "o", "n", "e", ".", "r", "u", "n", "(", "G", "o", "n", "e", ".", "j", "a", "v", "a", ":", "3", ")">> }
\* a trace of a frame no workspace holds, a frame that resolves and a frame
\* of the file that cannot be read
MixedTrace ==
  << <<"\t", "a", "t", " ", "a", ".", "G", "o", "n", "e", ".", "r", "u", "n", "(", "G", "o", "n", "e", ".", "j", "a", "v", "a", ":", "3", ")">>,
     <<"\t", "a", "t", " ", "c", "o", "m", ".", "a", "c", "m", "e", ".", "A", "u", "t", "h", ".", "l", "o", "g", "i", "n", "(", "A", "u", "t", "h", ".", "j", "a", "v", "a", ":", "2", ")">>,
     <<"\t", "a", "t", " ", "t", "o", "o", "l", "s", ".", "l", "o", "a", "d", "e", "r", ".", "l", "o", "a", "d", "(", "l", "o", "a", "d", "e", "r", ".", "p", "y", ":", "1", ")">> >>
ResolveIssues ==
  {[key |-> <<"B", "U", "G", "-", "1", "1">>, summary |-> <<"B", "u", "g">>, priority |-> <<"L", "o", "w">>,
    description |-> <<"S", "t", "a", "c", "k", " ", "t", "r", "a", "c", "e", ":", "\n">> \o join(ls, "\n")] :
     ls \in SeqsUpTo(FrameLines, MaxFrames) \cup {MixedTrace}}

\* analyzeBug has searched and is about to resolve the trace of the bug
InitResolve ==
  /\ issue \in ResolveIssues
  /\ workspace \in Workspaces
  /\ bugInfo = extractBugInfo(issue)
  /\ pc = "searched"
  /\ keywords = extractKeywords(bugInfo)
  /\ stages = <<Stage("search", TRUE)>>
  /\ searchResults = <<>>
  /\ stackTraceLocations = <<>>
  /\ history = NoHistory
  /\ gitLog = <<>>
  /\ relatedChanges = <<>>
  /\ analysis = NoAnalysis
  /\ ParserIdle
  /\ FixIdle
  /\ ServiceIdle

SpecResolve == InitResolve /\ [][ParseStackTrace]_vars

\* ---------------------------------------------------- the AI service alone
Callers == 1..MaxCallers
\* a caller that has not called getClient
NoCall == [pc |-> "idle", calledAfter |-> 0, result |-> 0]

InitClient ==
  /\ client = 0
  /\ constructed = 0
  /\ discarded = <<>>
  /\ callers = [c \in Callers |-> NoCall]
  /\ issue = [key |-> <<>>, summary |-> <<>>, priority |-> <<>>, description |-> <<>>]
  /\ workspace = <<>>
  /\ pc = "idle"
  /\ AnalysisIdle
  /\ ParserIdle
  /\ FixIdle

\* getClient, to its first await: with a client it returns it; without one
\* it enters initializeClient, which reads the configuration and awaits
\* getAIApiKey
GetClient(c) ==
  /\ callers[c].pc = "idle"
  /\ callers' = [callers EXCEPT ![c] =
                   IF client = 0
                     THEN [pc |-> "getAIApiKey", calledAfter |-> Len(discarded),
                           result |-> 0]
                     ELSE [pc |-> "returned", calledAfter |-> Len(discarded),
                           result |-> client]]
  /\ UNCHANGED <<client, constructed, discarded>>
  /\ UNCHANGED analysisVars
  /\ UNCHANGED parserVars
  /\ UNCHANGED fixVars

\* initializeClient, from the await of getAIApiKey on: the key arrives and
\* a new AIClient is constructed and stored, or the rejection is rethrown
\* and getClient rejects
InitializeClient(c) ==
  /\ callers[c].pc = "getAIApiKey"
  /\ \E ok \in BOOLEAN :
       IF ok THEN /\ constructed' = constructed + 1
                  /\ client' = constructed + 1
                  /\ callers' = [callers EXCEPT ![c].pc = "initialized"]
             ELSE /\ callers' = [callers EXCEPT ![c].pc = "failed"]
                  /\ UNCHANGED <<client, constructed>>
  /\ UNCHANGED discarded
  /\ UNCHANGED analysisVars
  /\ UNCHANGED parserVars
  /\ UNCHANGED fixVars

\* getClient, after the await of initializeClient: without a client it
\* throws, with one it returns this._client
GetClientReturn(c) ==
  /\ callers[c].pc = "initialized"
  /\ callers' = [callers EXCEPT ![c] =
                   IF client = 0
                     THEN [@ EXCEPT !.pc = "failed"]
                     ELSE [@ EXCEPT !.pc = "returned", !.result = client]]
  /\ UNCHANGED <<client, constructed, discarded>>
  /\ UNCHANGED analysisVars
  /\ UNCHANGED parserVars
  /\ UNCHANGED fixVars

\* resetClient: this._client = null (a reset without a client changes
\* nothing)
ResetClient ==
  /\ client # 0
  /\ Len(discarded) < MaxResets
  /\ client' = 0
  /\ discarded' = Append(discarded, client)
  /\ UNCHANGED <<constructed, callers>>
  /\ UNCHANGED analysisVars
  /\ UNCHANGED parserVars
  /\ UNCHANGED fixVars

NextClient ==
  \/ \E c \in Callers : GetClient(c)
  \/ \E c \in Callers : InitializeClient(c)
  \/ \E c \in Callers : GetClientReturn(c)
  \/ ResetClient

SpecClient == InitClient /\ [][NextClient]_vars

\* ================================================================ claims
Finished == pc \in {"correlated", "done"}
sameLocation(a, b) == a.filePath = b.filePath /\ a.lineNumber = b.lineNumber

\* the frame of the end-to-end example and the file it names
AuthFrame == <<"a", "t", " ", "c", "o", "m", ".", "a", "c", "m", "e", ".", "A", "u", "t", "h", ".", "l", "o", "g", "i", "n", "(", "A", "u", "t", "h", ".", "j", "a", "v", "a", ":", "8", "8", ")">>
AuthFileName == <<"A", "u", "t", "h", ".", "j", "a", "v", "a">>
\* the workspace holds a readable Auth.java of at least 88 lines
HoldsAuthJava ==
  LET found == findFileInWorkspace(AuthFileName, workspace)
  IN found # <<>> /\ found[1].readable /\ Len(found[1].lines) >= 88
SurfacesAuthFrame ==
  \E k \in 1..Len(analysis.suggestedLocations) :
    LET l == analysis.suggestedLocations[k]
    IN /\ basename(l.filePath) = AuthFileName
       /\ l.lineNumber = 88
       /\ l.relevanceScore = 10

(* C1: when the description contains the frame                             *)
(* 'at com.acme.Auth.login(Auth.java:88)', under a stack-trace heading or  *)
(* not, and the workspace holds Auth.java with at least 88 lines, the      *)
(* finished analysis suggests Auth.java line 88 with relevanceScore 10.    *)
C1_FrameSurfaced ==
  (pc = "done" /\ includes(issue.description, AuthFrame) /\ HoldsAuthJava)
    => SurfacesAuthFrame

(* C2: in the finished analysis' suggestedLocations every candidate that   *)
(* came from the stack trace stands before every candidate at a location   *)
(* only the keyword search produced.                                       *)
C2_StackFramesFirst ==
  pc = "done" =>
    \A i, j \in 1..Len(analysis.suggestedLocations) :
      LET a == analysis.suggestedLocations[i]
          b == analysis.suggestedLocations[j]
      IN (/\ a \in Range(stackTraceLocations)
          /\ \A s \in Range(stackTraceLocations) : ~sameLocation(b, s))
           => i < j

(* C3: the finished analysis' suggestedLocations never has more than 20    *)
(* entries.                                                                *)
C3_MergedCapped ==
  pc = "done" => Len(analysis.suggestedLocations) <= 20

\* the results of the search in the order the loops met them
encountered ==
  resultsOfKeywords(extractKeywords(bugInfo), extractKeywords(bugInfo), workspace)
\* the elements of results that score n, in order
scoring(results, n) == SelectSeq(results, LAMBDA r : r.relevanceScore = n)
isPrefix(s, t) == Len(s) <= Len(t) /\ s = SubSeq(t, 1, Len(s))

(* C4: what the keyword search returns is in non-increasing order of       *)
(* relevanceScore, the results of one score in the order the search met    *)
(* them, holds no negative score and has at most 20 entries.               *)
C4_SearchSortedCapped ==
  pc = "searched" =>
    /\ Len(searchResults) <= 20
    /\ \A i \in 1..Len(searchResults) : searchResults[i].relevanceScore >= 0
    /\ \A i, j \in 1..Len(searchResults) :
         i < j => searchResults[i].relevanceScore >= searchResults[j].relevanceScore
    /\ \A n \in {searchResults[i].relevanceScore : i \in 1..Len(searchResults)} :
         isPrefix(scoring(searchResults, n), scoring(encountered, n))
\* a full result list with ties between different lines and several scores
C4_Witness ==
  /\ pc = "searched"
  /\ Len(searchResults) = 20
  /\ \E i, j \in 1..Len(searchResults) :
       /\ searchResults[i].relevanceScore = searchResults[j].relevanceScore
       /\ ~sameLocation(searchResults[i], searchResults[j])
  /\ searchResults[1].relevanceScore > searchResults[20].relevanceScore

\* the line of the workspace a result points at
lineOf(r) ==
  LET f == CHOOSE f \in Range(workspace) : f.path = r.filePath
  IN f.lines[r.lineNumber]
\* keyword occurs in line, letter case ignored
occursIgnoringCase(keyword, line) ==
  \E i \in 1..Len(line) :
    /\ i + Len(keyword) - 1 <= Len(line)
    /\ \A k \in 1..Len(keyword) : LowerChar(line[i + k - 1]) = LowerChar(keyword[k])

(* C5: every result of the keyword search has a relevanceScore equal to    *)
(* the number of distinct extracted keywords that occur in its line as     *)
(* substrings, letter case ignored.                                        *)
C5_ScoreCountsKeywords ==
  pc = "searched" =>
    \A i \in 1..Len(searchResults) :
      searchResults[i].relevanceScore =
        Cardinality({kw \in Range(extractKeywords(bugInfo)) :
                       occursIgnoringCase(kw, lineOf(searchResults[i]))})
\* a line that holds several keywords, one of them in another letter case
C5_Witness ==
  /\ pc = "searched"
  /\ \E i \in 1..Len(searchResults) :
       /\ searchResults[i].relevanceScore >= 2
       /\ \E kw \in Range(extractKeywords(bugInfo)) :
            /\ occursIgnoringCase(kw, lineOf(searchResults[i]))
            /\ ~includes(lineOf(searchResults[i]), kw)

\* the records of the log that answered query q
recordsOfQuery(q) ==
  commitRecords(formatLog(gitLog[q].reply.commits), gitLog[q].filePath)

(* C6: when the log query of one file fails, that file contributes no      *)
(* commit record and the records of every other file queried are in the    *)
(* list analyzeCodeChanges returns.                                        *)
C6_FailureIsolated ==
  Finished =>
    \A q \in 1..Len(gitLog) :
      IF gitLog[q].reply.ok
        THEN \A rec \in Range(recordsOfQuery(q)) : rec \in Range(relatedChanges)
        ELSE \A rec \in Range(relatedChanges) : rec.files # <<gitLog[q].filePath>>

\* the file paths of locations, each once, in order of first occurrence
distinctPaths(locations) ==
  unique([i \in 1..Len(locations) |-> locations[i].filePath])

(* C7: history correlation queries the log of exactly the first 5 distinct *)
(* file paths of the merged candidate list (all of them when fewer), each  *)
(* once and in that order.                                                 *)
C7_FirstFiveDistinctFiles ==
  (Finished /\ \A q \in 1..Len(gitLog) : gitLog[q].reply.ok) =>
    [q \in 1..Len(gitLog) |-> gitLog[q].filePath]
      = take(distinctPaths(mergedLocations), 5)

FixMessage == <<"f", "i", "x", ":", " ", "n", "u", "l", "l", " ", "p", "o", "i", "n", "t", "e", "r", " ", "i", "n", " ", "p", "a", "r", "s", "e", "r">>
RefactorMessage == <<"r", "e", "f", "a", "c", "t", "o", "r", ":", " ", "r", "e", "n", "a", "m", "e", " ", "v", "a", "r", "i", "a", "b", "l", "e">>
\* the record analyzeCodeChanges built from commit i of query q
recordOf(q, i) == recordsOfQuery(q)[i]
\* the queries whose records the correlation holds
correlated == {q \in 1..Len(gitLog) : Range(recordsOfQuery(q)) \subseteq Range(history.changes)
                                      /\ gitLog[q].reply.ok}

(* C8: every commit record is suspicious exactly when the message of its   *)
(* commit contains a term of the fixed keyword set, letter case ignored,   *)
(* and carries a non-empty reason exactly when it is suspicious; 'fix:     *)
(* null pointer in parser' is suspicious, 'refactor: rename variable' is   *)
(* not.                                                                    *)
C8_SuspiciousIffKeyword ==
  \A q \in correlated :
    \A i \in 1..Len(gitLog[q].reply.commits) :
      LET commit == gitLog[q].reply.commits[i]
          rec    == recordOf(q, i)
      IN /\ rec.suspicious =
              (\E term \in suspiciousKeywords : occursIgnoringCase(term, commit.subject))
         /\ rec.suspicious <=> (rec.reason # Undefined /\ rec.reason # <<>>)
         /\ commit.subject = FixMessage => rec.suspicious
         /\ commit.subject = RefactorMessage => ~rec.suspicious

\* the index in frames of the frame of line k, every line of either
\* grammar giving one frame
frameIndex(k) == Cardinality({m \in 1..k : traceLines[m].kind # "other"})

(* C9: every JS/TS-style line 'at <fn> (<path>:<line>:<col>)' yields a     *)
(* frame whose fileName is the base name of <path>, whose lineNumber is    *)
(* <line> and whose functionName is <fn>; a trace of that one line yields  *)
(* exactly one frame.                                                      *)
C9_JsFrame ==
  parsed =>
    \A k \in 1..Len(traceLines) :
      traceLines[k].kind = "js" =>
        /\ Len(traceLines) = 1 => Len(frames) = 1
        /\ frameIndex(k) <= Len(frames)
        /\ frames[frameIndex(k)].fileName = basename(traceLines[k].path)
        /\ frames[frameIndex(k)].lineNumber = traceLines[k].line.value
        /\ frames[frameIndex(k)].functionName = traceLines[k].fn

\* the trace line 'at com.acme.Foo.bar(Foo.java:42)'
FooBarLine ==
  [kind |-> "java", indent |-> <<>>,
   method |-> << <<"c", "o", "m">>, <<"a", "c", "m", "e">>, <<"F", "o", "o">>, <<"b", "a", "r">> >>,
   file |-> <<"F", "o", "o", ".", "j", "a", "v", "a">>, line |-> [text |-> <<"4", "2">>, value |-> 42]]
FooBarFrame ==
  [fileName |-> <<"F", "o", "o", ".", "j", "a", "v", "a">>, lineNumber |-> 42, functionName |-> <<"b", "a", "r">>,
   className |-> <<"c", "o", "m", ".", "a", "c", "m", "e", ".", "F", "o", "o">>]

(* C10: every Java-style line 'at <qualified.method>(<File>:<line>)'       *)
(* yields a frame with that file name and line number, whose className is  *)
(* the qualified method up to its last '.' and whose functionName is the   *)
(* final segment; 'at com.acme.Foo.bar(Foo.java:42)' alone yields exactly  *)
(* the one frame Foo.java, 42, bar, com.acme.Foo.                          *)
C10_JavaFrame ==
  parsed =>
    /\ traceLines = <<FooBarLine>> => frames = <<FooBarFrame>>
    /\ \A k \in 1..Len(traceLines) :
         traceLines[k].kind = "java" =>
           LET d == traceLines[k]
               n == Len(d.method)
           IN /\ frameIndex(k) <= Len(frames)
              /\ frames[frameIndex(k)].fileName = d.file
              /\ frames[frameIndex(k)].lineNumber = d.line.value
              /\ frames[frameIndex(k)].functionName = d.method[n]
              /\ frames[frameIndex(k)].className = join(SubSeq(d.method, 1, n - 1), ".")
\* the example line parsed to its frame
C10_Witness ==
  /\ parsed
  /\ traceLines = <<FooBarLine>>
  /\ frames = <<FooBarFrame>>

(* C11: every frame the stack-trace parser returns has lineNumber >= 1,    *)
(* whatever the trace text, a line field of '0' included.                  *)
C11_LineNumberPositive ==
  \A i \in 1..Len(frames) : frames[i].lineNumber >= 1

\* the description of the worked example
ExampleDescription ==
  <<"S", "t", "e", "p", "s", " ", "t", "o", " ", "R", "e", "p", "r", "o", "d", "u", "c", "e", ":", "\n", "-", " ", "s", "t", "e", "p", "1", "\n", "-", " ", "s", "t", "e", "p", "2", "\n", "\n", "E", "x", "p", "e", "c", "t", "e", "d", ":", " ", "X", "\n", "A", "c", "t", "u", "a", "l", ":", " ", "Y">>

(* C12: for the description 'Steps to Reproduce:' followed by '- step1',   *)
(* '- step2', a blank line, 'Expected: X' and 'Actual: Y', extractBugInfo  *)
(* yields stepsToReproduce = ['- step1', '- step2'], expectedBehavior =    *)
(* 'X' and actualBehavior = 'Y'.                                           *)
C12_ExampleSections ==
  (pc = "extracted" /\ issue.description = ExampleDescription) =>
    /\ bugInfo.stepsToReproduce = << <<"-", " ", "s", "t", "e", "p", "1">>, <<"-", " ", "s", "t", "e", "p", "2">> >>
    /\ bugInfo.expectedBehavior = <<"X">>
    /\ bugInfo.actualBehavior = <<"Y">>
\* the example has been extracted
C12_Witness ==
  /\ pc = "extracted"
  /\ issue.description = ExampleDescription
  /\ Len(bugInfo.stepsToReproduce) = 2

\* no heading of headings, followed by a colon, occurs in description
headingAbsent(description, headings) ==
  \A h \in headings : \A colon \in {":", "U+FF1A"} :
    ~includes(toLowerCase(description), h \o <<colon>>)
\* no line of description holds a heading of the steps section
stepsHeadingAbsent(description) ==
  \A line \in Range(split(description, "\n")) :
    \A h \in { <<"U+91CD", "U+73B0", "U+6B65", "U+9AA4">>, <<"s", "t", "e", "p", "s", " ", "t", "o", " ", "r", "e", "p", "r", "o", "d", "u", "c", "e">>, <<"U+590D", "U+73B0", "U+6B65", "U+9AA4">> } :
      ~includes(toLowerCase(line), h)
ExpectedHeadings == { <<"U+671F", "U+671B", "U+884C", "U+4E3A">>, <<"e", "x", "p", "e", "c", "t", "e", "d", " ", "b", "e", "h", "a", "v", "i", "o", "r">>, <<"e", "x", "p", "e", "c", "t", "e", "d">> }
ActualHeadings == { <<"U+5B9E", "U+9645", "U+884C", "U+4E3A">>, <<"a", "c", "t", "u", "a", "l", " ", "b", "e", "h", "a", "v", "i", "o", "r">>, <<"a", "c", "t", "u", "a", "l">> }
EnvironmentHeadings == { <<"U+73AF", "U+5883">>, <<"e", "n", "v", "i", "r", "o", "n", "m", "e", "n", "t">> }

(* C13: extractBugInfo returns for every description text, the empty one   *)
(* included, and every section whose heading is absent has its empty       *)
(* default: stepsToReproduce the empty sequence, expectedBehavior,         *)
(* actualBehavior and environment the empty string.                        *)
C13_AbsentSectionsDefault ==
  pc = "extracted" =>
    LET d == issue.description
    IN /\ bugInfo.issueKey = issue.key
       /\ bugInfo.description = d
       /\ stepsHeadingAbsent(d) => bugInfo.stepsToReproduce = <<>>
       /\ headingAbsent(d, ExpectedHeadings) => bugInfo.expectedBehavior = <<>>
       /\ headingAbsent(d, ActualHeadings) => bugInfo.actualBehavior = <<>>
       /\ headingAbsent(d, EnvironmentHeadings) => bugInfo.environment = <<>>
\* a description with one section and without the three others
C13_Witness ==
  /\ pc = "extracted"
  /\ bugInfo.expectedBehavior = <<"X">>
  /\ stepsHeadingAbsent(issue.description)
  /\ headingAbsent(issue.description, ActualHeadings)
  /\ headingAbsent(issue.description, EnvironmentHeadings)
  /\ bugInfo.stepsToReproduce = <<>>
  /\ bugInfo.actualBehavior = <<>>
  /\ bugInfo.environment = <<>>

\* the required fields of a fix suggestion
RequiredFields ==
  {"type", "description", "rootCause", "fixSteps", "testSuggestions", "risks"}
\* the completion generateFixSuggestion parsed
completion == calls[2].content

(* C14: every suggestion generateFixSuggestion returns has type 'simple'   *)
(* or 'complex' and has description, rootCause, fixSteps, testSuggestions  *)
(* and risks defined, whatever the completion text, valid JSON whose       *)
(* fields are missing or carry other values included.                      *)
C14_SuggestionPopulated ==
  pc = "suggested" =>
    /\ suggestion.type.t = "string"
    /\ suggestion.type.v \in { <<"s", "i", "m", "p", "l", "e">>, <<"c", "o", "m", "p", "l", "e", "x">> }
    /\ \A f \in RequiredFields : suggestion[f].t \notin {"undefined", "null"}

C16_ParseNeverRaises ==
  (Len(calls) = 2 /\ calls[2].ok) =>
    /\ pc = "suggested"
    /\ failure = <<>>
    /\ suggestion # NoSuggestion
\* the completion 'null' gave the fallback
C16_Witness ==
  /\ pc = "suggested"
  /\ completion = <<"n", "u", "l", "l">>
  /\ suggestion.type = JsString(<<"c", "o", "m", "p", "l", "e", "x">>)
  /\ suggestion.description = JsString(<<"n", "u", "l", "l">>)

(* C17: when the call to the reasoning collaborator fails, the client      *)
(* unavailable or the request failing, generateFixSuggestion returns no    *)
(* suggestion and throws one error that names the fix-suggestion stage,    *)
(* and the call is not made a second time.                                 *)
C17_CallFailureRaised ==
  (\E k \in 1..Len(calls) : ~calls[k].ok) =>
    /\ pc = "suggest_failed"
    /\ suggestion = NoSuggestion
    /\ isPrefix(<<"U+751F", "U+6210", "U+4FEE", "U+590D", "U+5EFA", "U+8BAE", "U+5931", "U+8D25">>, failure)
    /\ ~calls[Len(calls)].ok
    /\ \A k \in 1..(Len(calls) - 1) : calls[k].ok
    /\ Cardinality({k \in 1..Len(calls) : calls[k].call = "chat"}) <= 1
    /\ Cardinality({k \in 1..Len(calls) : calls[k].call = "getClient"}) = 1
\* the request timed out
C17_Witness ==
  /\ pc = "suggest_failed"
  /\ Len(calls) = 2
  /\ calls[2].call = "chat"
  /\ ~calls[2].ok
  /\ includes(failure, <<"t", "i", "m", "e", "o", "u", "t">>)

(* C18: the keyword search emits one candidate per source line that holds  *)
(* a keyword: no pair of filePath and lineNumber occurs twice in what it   *)
(* returns, however many keywords the line holds.                          *)
C18_OneCandidatePerLine ==
  pc = "searched" =>
    \A i, j \in 1..Len(searchResults) :
      (/\ searchResults[i].filePath = searchResults[j].filePath
       /\ searchResults[i].lineNumber = searchResults[j].lineNumber) => i = j

\* the lines of the workspace file a candidate is in
linesOf(r) == (CHOOSE f \in Range(workspace) : f.path = r.filePath).lines

(* C19: the context of a keyword-search candidate at a line holds the 2    *)
(* lines before it, fewer at the head of the file, and the 3 lines after   *)
(* it, fewer at the end of the file, and never the line itself.            *)
C19_ContextTwoBeforeThreeAfter ==
  pc = "searched" =>
    \A i \in 1..Len(searchResults) :
      LET r == searchResults[i]
          n == r.lineNumber
      IN /\ r.context.before = SubSeq(linesOf(r), Max({1, n - 2}), n - 1)
         /\ r.context.after = SubSeq(linesOf(r), n + 1, Min({Len(linesOf(r)), n + 3}))

\* the frames of the trace of the bug
framesOfBug ==
  IF bugInfo.stackTrace = Undefined THEN <<>>
  ELSE extractStackTraceFrames(bugInfo.stackTrace)
\* the workspace file a frame resolves to, as a sequence of at most one file
resolved(frame) == findFileInWorkspace(frame.fileName, workspace)
\* frame resolves to a file that can be read and its line is one of the
\* file's
inBounds(frame) ==
  /\ resolved(frame) # <<>>
  /\ resolved(frame)[1].readable
  /\ frame.lineNumber >= 1
  /\ frame.lineNumber <= Len(resolved(frame)[1].lines)
\* candidate r is the one of frame: the frame's line in the frame's file,
\* score 10, the 5 lines before and the 5 lines after as far as there are
candidateOf(r, frame) ==
  LET f == resolved(frame)[1]
      n == frame.lineNumber
  IN /\ r.filePath = f.path
     /\ r.lineNumber = n
     /\ r.relevanceScore = 10
     /\ r.context.before = SubSeq(f.lines, Max({1, n - 5}), n - 1)
     /\ r.context.after = SubSeq(f.lines, n + 1, Min({Len(f.lines), n + 5}))

(* C20: every resolved frame whose lineNumber is within the lines of its   *)
(* file gives a candidate with relevanceScore 10, the frame's lineNumber   *)
(* and a context of up to 5 lines before and 5 lines after; a frame whose  *)
(* lineNumber is below 1 or beyond the last line gives nothing.            *)
C20_ResolvedFrameCandidate ==
  pc = "history" =>
    /\ \A k \in 1..Len(framesOfBug) :
         inBounds(framesOfBug[k]) =>
           \E i \in 1..Len(stackTraceLocations) :
             candidateOf(stackTraceLocations[i], framesOfBug[k])
    /\ \A i \in 1..Len(stackTraceLocations) :
         \E k \in 1..Len(framesOfBug) :
           /\ inBounds(framesOfBug[k])
           /\ candidateOf(stackTraceLocations[i], framesOfBug[k])

\* ------------------------------------------------------------- claim C21
\* frame cannot be resolved: no workspace file has its name, or the file is
\* read and the frame's line is not one of the file's
unresolvable(frame) ==
  \/ resolved(frame) = <<>>
  \/ /\ resolved(frame)[1].readable
     /\ \/ frame.lineNumber < 1
        \/ frame.lineNumber > Len(resolved(frame)[1].lines)

(* C21: a frame that cannot be resolved (no workspace file with that name,  *)
(* or line out of range) is dropped without error, and the candidates of   *)
(* all other frames of the same trace are still returned, in frame order.  *)
C21_UnresolvableFrameDropped ==
  (pc = "history" /\ \E k \in 1..Len(framesOfBug) : unresolvable(framesOfBug[k])) =>
    LET others == SelectSeq(framesOfBug, inBounds)
    IN /\ Len(stackTraceLocations) = Len(others)
       /\ \A i \in 1..Len(others) : candidateOf(stackTraceLocations[i], others[i])

\* ------------------------------------------------------------- claim C22
\* the lines of the trace that are of one of the two grammars
recognizedLines == SelectSeq(traceLines, LAMBDA d : d.kind # "other")

(* C22: the parser returns one frame per recognized trace line, in the     *)
(* same top-to-bottom order as the input; lines matching neither grammar   *)
(* contribute nothing and raise no error, and a trace with no recognized   *)
(* line yields the empty sequence.                                         *)
C22_OneFramePerRecognizedLine ==
  parsed =>
    /\ Len(frames) = Len(recognizedLines)
    /\ \A i \in 1..Len(recognizedLines) :
         <<frames[i]>> = frameOfLine(renderLine(recognizedLines[i]))
\* a trace of a JS/TS-style line above a Java-style line has been parsed to
\* two different frames, the Java one last
C22_Witness ==
  /\ parsed
  /\ Len(traceLines) = 2
  /\ traceLines[1].kind = "js"
  /\ traceLines[2].kind = "java"
  /\ Len(frames) = 2
  /\ frames[1] # frames[2]
  /\ frames[2].className # Undefined

\* ------------------------------------------------------------- claim C23
\* the words of the headings of the sections other than the steps
OtherSectionWords ==
  { <<"e", "x", "p", "e", "c", "t", "e", "d">>, <<"a", "c", "t", "u", "a", "l">>, <<"e", "n", "v", "i", "r", "o", "n", "m", "e", "n", "t">>, <<"s", "t", "a", "c", "k", " ", "t", "r", "a", "c", "e">>, <<"s", "t", "a", "c", "k", "t", "r", "a", "c", "e">>,
    <<"U+671F", "U+671B">>, <<"U+5B9E", "U+9645">>, <<"U+73AF", "U+5883">>, <<"U+5806", "U+6808">> }
\* a line in list style: a leading '-' or 'N.'
listStyle(line) ==
  LET t == trim(line)
  IN (t # <<>> /\ t[1] = "-") \/ startsNumbered(t)
stepsHeadingLine(line) ==
  \E h \in StepsHeadings : includes(toLowerCase(line), h)
\* a line that is the heading of another section, given the words of the
\* other sections
otherHeadingLine(line, words) ==
  /\ ~listStyle(line)
  /\ ~stepsHeadingLine(line)
  /\ \E w \in words : includes(toLowerCase(line), w)
\* the list-style lines of the steps section of lines: those after the first
\* steps heading and before the first heading of another section after it
stepLines(lines, words) ==
  LET heads == {i \in 1..Len(lines) : stepsHeadingLine(lines[i])}
      first == Min(heads)
      stops == {j \in (first + 1)..Len(lines) : otherHeadingLine(lines[j], words)}
      last  == IF stops = {} THEN Len(lines) ELSE Min(stops) - 1
  IN IF heads = {} THEN {}
     ELSE {k \in (first + 1)..last : listStyle(lines[k])}

(* C23: collection of stepsToReproduce stops at the first subsequent line  *)
(* that is any other known section heading (expected, actual, environment, *)
(* stack trace, or their Chinese synonyms): list-style lines that follow   *)
(* such a heading are never included in stepsToReproduce.                  *)
C23_StepsStopAtAnyHeading ==
  pc = "extracted" =>
    Len(bugInfo.stepsToReproduce)
      <= Cardinality(stepLines(split(issue.description, "\n"), OtherSectionWords))

\* ------------------------------------------------------------- claim C24
\* the positions of text where a token (a longest run of word characters)
\* starts
tokenStarts(text) ==
  {i \in 1..Len(text) :
     /\ IsWordChar(text[i])
     /\ i = 1 \/ ~IsWordChar(text[i - 1])}
\* the token of text that starts at position i
tokenAt(text, i) ==
  LET stop == {j \in i..Len(text) : ~IsWordChar(text[j])}
  IN SubSeq(text, i, IF stop = {} THEN Len(text) ELSE Min(stop) - 1)
\* a token longer than 3 characters that is no stopword
qualifying(token) == Len(token) > 3 /\ token \notin commonWords
\* the distinct qualifying tokens of text in lower case, in the order of
\* their first occurrences
distinctTokens(text) ==
  LET low    == toLowerCase(text)
      starts == tokenStarts(low)
      token  == [i \in starts |-> tokenAt(low, i)]
      firsts == {i \in starts :
                   /\ qualifying(token[i])
                   /\ \A j \in starts : j < i => token[j] # token[i]}
      rank   == [i \in firsts |-> Cardinality({j \in firsts : j <= i})]
  IN [k \in 1..Cardinality(firsts) |-> token[CHOOSE i \in firsts : rank[i] = k]]

(* C24: extractKeywords over summary + description returns at most 10      *)
(* tokens, all lower-case, each longer than 3 characters, none in the      *)
(* stopword list, without duplicates, and in order of first occurrence in  *)
(* the text: the result is exactly the first 10 distinct qualifying tokens.*)
C24_FirstTenDistinctTokens ==
  pc = "searched" =>
    LET tokens == distinctTokens(bugInfo.summary \o <<" ">> \o bugInfo.description)
    IN /\ Len(keywords) = Min({10, Len(tokens)})
       /\ \A k \in 1..Len(keywords) :
            /\ keywords[k] = tokens[k]
            /\ keywords[k] = toLowerCase(keywords[k])
            /\ Len(keywords[k]) > 3
            /\ keywords[k] \notin commonWords
            /\ \A m \in 1..(k - 1) : keywords[m] # keywords[k]
\* the search of the issue whose text holds 12 distinct qualifying tokens, a
\* token twice, a stopword of 4 letters and a capital letter
C24_Witness ==
  /\ pc = "searched"
  /\ issue = ManyWordsIssue
  /\ Len(keywords) = 10
  /\ keywords[3] = <<"c", "h", "a", "r", "l", "i", "e">>
  /\ keywords[10] = <<"j", "u", "l", "i", "e", "t">>

\* ------------------------------------------------------------- claim C25
\* the prompt of the chat call of generateFixSuggestion, in lines
promptLines == split(calls[2].prompt, "\n")
\* the lines of the prompt under the line heading, up to the next empty line
\* or the end of the prompt
sectionLines(heading) ==
  LET at    == Min({i \in 1..Len(promptLines) : promptLines[i] = heading})
      stops == {j \in (at + 1)..Len(promptLines) : promptLines[j] = <<>>}
      last  == IF stops = {} THEN Len(promptLines) ELSE Min(stops) - 1
  IN SubSeq(promptLines, at + 1, last)
\* candidate l written as path:line, commit c written with its hash
writtenLocation(l) == <<"-", " ">> \o l.filePath \o <<":">> \o toString(l.lineNumber)
writtenCommit(c) == <<"-", " ">> \o SubSeq(c.commitHash, 1, Min({7, Len(c.commitHash)}))
                          \o <<":", " ">> \o c.message

(* C25: the prompt built for the fix suggestion embeds the 5 highest-ranked *)
(* candidate locations of the merged (keyword plus stack-trace) candidate  *)
(* set as path:line, and the first 3 commit records, and no further        *)
(* locations or commits.                                                   *)
C25_PromptEmbedsTopLocations ==
  (Len(calls) >= 2 /\ calls[2].call = "chat") =>
    LET merged    == analysis.suggestedLocations
        changes   == analysis.relatedChanges
        locations == sectionLines(<<"U+5EFA", "U+8BAE", "U+68C0", "U+67E5", "U+4F4D", "U+7F6E", ":">>)
        commits   == sectionLines(<<"U+76F8", "U+5173", "U+53D8", "U+66F4", ":">>)
        embedded  == {i \in 1..Len(merged) : writtenLocation(merged[i]) \in Range(locations)}
    IN /\ Len(locations) = Min({5, Len(merged)})
       /\ \A k \in 1..Len(locations) : \E i \in embedded : locations[k] = writtenLocation(merged[i])
       /\ \A i \in embedded : \A j \in (1..Len(merged)) \ embedded :
            merged[j].relevanceScore <= merged[i].relevanceScore
       /\ Len(commits) = Min({3, Len(changes)})
       /\ \A k \in 1..Len(commits) : commits[k] = writtenCommit(changes[k])

\* ---------------------------------------------------------------- C26
\* the files one scan reads: the first 50 the enumeration gives
scannedFiles == take(findSourceFiles(workspace), MaxScanFiles)
\* line n of the i-th scanned file names a keyword
namesKeyword(i, n) ==
  \E k \in 1..Len(keywords) :
    includes(toLowerCase(scannedFiles[i].lines[n]), toLowerCase(keywords[k]))
\* a result is of line n of the i-th scanned file
resultOf(r, i, n) ==
  r.filePath = scannedFiles[i].path /\ r.lineNumber = n

\* C26: when the enumeration of the files succeeds, every result of the
\* keyword search is of a line of a readable file among the first 50
\* enumerated, and, as long as the cut to the top 20 drops nothing, every
\* line of such a file that names a keyword has a result, whether or not
\* another scanned file cannot be read
C26_UnreadableFileSkipped ==
  (pc = "searched" /\ ~stages[1].failed) =>
    LET scanned == scannedFiles
        results == searchResults
    IN /\ \A j \in 1..Len(results) :
            \E i \in 1..Len(scanned) :
              /\ scanned[i].readable
              /\ results[j].lineNumber \in 1..Len(scanned[i].lines)
              /\ resultOf(results[j], i, results[j].lineNumber)
       /\ Len(results) < TopResults =>
            \A i \in 1..Len(scanned) :
              scanned[i].readable =>
                \A n \in 1..Len(scanned[i].lines) :
                  namesKeyword(i, n) =>
                    \E j \in 1..Len(results) : resultOf(results[j], i, n)

\* a scan of the large workspace: its second file cannot be read, and the
\* results are of its first and of its 50th source file
C26_Witness ==
  /\ pc = "searched"
  /\ ~stages[1].failed
  /\ workspace = ManyFiles
  /\ Len(findSourceFiles(workspace)) > MaxScanFiles
  /\ ~scannedFiles[2].readable
  /\ namesKeyword(2, 1)
  /\ Len(searchResults) = 2
  /\ resultOf(searchResults[1], 1, 1)
  /\ resultOf(searchResults[2], MaxScanFiles, 1)

\* ---------------------------------------------------------------- C27
\* the stages of analyzeBug, in the order of its awaits
StageOrder == <<"search", "stackTrace", "history", "ai">>

\* the positions of analyzeBug: before each of its stages, and returned
AnalysisPositions ==
  <<"start", "extracted", "searched", "history", "correlated", "done">>

\* C27: analyzeBug runs its stages in the order search, stack trace,
\* history, AI, whichever of them fail: after k stages it stands before the
\* next one and never in a raise, and once the four have run it has
\* returned an analysis that holds an empty list for each failed stage of
\* candidates or history and the one note that the AI is unavailable for a
\* failed AI call
C27_AnalyzeBugAlwaysCompletes ==
  /\ Len(stages) <= Len(StageOrder)
  /\ \A i \in 1..Len(stages) : stages[i].stage = StageOrder[i]
  /\ pc \in {AnalysisPositions[Len(stages) + 2]}
           \cup (IF stages = <<>> THEN {"start"} ELSE {})
  /\ pc = "done" =>
       /\ analysis # NoAnalysis
       /\ analysis.suggestedLocations = searchResults \o stackTraceLocations
       /\ analysis.relatedChanges = relatedChanges
       /\ analysis.possibleCauses = <<>>
       /\ Len(analysis.analysisNotes) = 1
       /\ stages[1].failed => searchResults = <<>>
       /\ stages[2].failed => stackTraceLocations = <<>>
       /\ stages[3].failed => analysis.relatedChanges = <<>>
       /\ stages[4].failed <=> analysis.analysisNotes = <<AIUnavailable>>

\* an analysis returned after the stack-trace resolution, the history
\* correlation and the AI call all failed
C27_Witness ==
  /\ pc = "done"
  /\ ~stages[1].failed /\ stages[2].failed /\ stages[3].failed /\ stages[4].failed
  /\ searchResults # <<>>
  /\ gitLog # <<>>
  /\ analysis.suggestedLocations = searchResults
  /\ analysis.relatedChanges = <<>>
  /\ analysis.analysisNotes = <<AIUnavailable>>

\* ---------------------------------------------------------------- C28
\* C28: the message of every commit record is the whole subject of the
\* commit its log line was printed from, and its author that commit's
\* author, whether or not the subject holds the delimiter '|'
C28_MessageIsWholeSubject ==
  \A q \in correlated :
    \A i \in 1..Len(gitLog[q].reply.commits) :
      /\ recordOf(q, i).message = gitLog[q].reply.commits[i].subject
      /\ recordOf(q, i).author = gitLog[q].reply.commits[i].author

\* ---------------------------------------------------------------- C29
\* C29: at most 10 keywords are extracted, and the relevanceScore of every
\* result of the keyword search is at least 1 and at most the number of
\* keywords, hence at most the score 10 of a stack-trace candidate
C29_KeywordScoreBounds ==
  pc = "searched" =>
    /\ Len(keywords) <= MaxKeywords
    /\ \A j \in 1..Len(searchResults) :
         /\ 1 <= searchResults[j].relevanceScore
         /\ searchResults[j].relevanceScore <= Len(keywords)
         /\ searchResults[j].relevanceScore <= StackTraceScore

\* a search with 10 keywords: the line that names them all scores 10, the
\* score of a stack-trace candidate, and another line scores 1
C29_Witness ==
  /\ pc = "searched"
  /\ workspace = <<TenWordsTs>>
  /\ Len(keywords) = MaxKeywords
  /\ searchResults # <<>>
  /\ searchResults[1].lineNumber = 1
  /\ searchResults[1].relevanceScore = StackTraceScore
  /\ \E j \in 1..Len(searchResults) :
       searchResults[j].lineNumber = 2 /\ searchResults[j].relevanceScore = 1

\* ---------------------------------------------------------------- C30
\* the callers getClient has returned a client to
returnedCallers == {c \in Callers : callers[c].pc = "returned"}

\* C30: as long as no client has been reset, at most one AIClient is
\* constructed and every caller getClient returns to has the same client;
\* and a call made after a reset never returns a client dropped by that or
\* an earlier reset
C30_OneClientPerService ==
  /\ discarded = <<>> =>
       /\ constructed <= 1
       /\ \A c \in returnedCallers : \A d \in returnedCallers :
            callers[c].result = callers[d].result
  /\ \A c \in returnedCallers :
       \A k \in 1..callers[c].calledAfter : callers[c].result # discarded[k]
====
